---- MODULE Spec2Model ----
(***************************************************************************)
(* Model of nvmmcp: a server that bridges tool-call / resource-read        *)
(* requests to a Neovim RPC session reached over a unix socket.            *)
(*                                                                         *)
(* Two builds of the entry point are modelled:                             *)
(*   "index" : src/src/index.ts (second program of the file, lines         *)
(*             379-1387), a single tools/call handler;                      *)
(*   "mcp"   : src/unnamed/part_006, a buffers resource plus two tools.     *)
(* The connection utilities of src/src/utils/neovim-connection.ts are the  *)
(* same code as the functions of the two builds and are modelled once.     *)
(* The exported functions of src/src/actions (sendNormalMode,              *)
(* sendCommandMode, viewBuffers) are called directly, with no connection   *)
(* check (SpecCM). Three versions of the exported viewBuffers exist:       *)
(*   "actions"        : src/src/actions/view-buffers.ts 14-279, the        *)
(*                      windows of every tab and nothing else;              *)
(*   "actions_tabs"   : src/src/actions/send-normal-mode.ts 79-518, the    *)
(*                      three sections of index.ts without layout;          *)
(*   "actions_layout" : src/unnamed/part_007 77-613, with the layout of    *)
(*                      each tab.                                           *)
(***************************************************************************)
EXTENDS Integers, Sequences, FiniteSets, TLC

(* ------------------------------ bounds -------------------------------- *)
\* requests served in one behaviour
MaxRequests == 2
\* faults injected into one request: calls that fail while the editor is
\* responsive, and changes of the editor (exit, hang, recovery, exchange of
\* two windows) between two calls of the action
MaxFaults == 1
\* open buffers of the editor
NumBuffers == 2
\* windows of the current tab
NumWindows == 2
\* tab pages (every tab but the current one holds one window)
NumTabs == 2

(* ------------------------- program constants -------------------------- *)
NVIM_API_TIMEOUT_MS == 1000
NVIM_RPC_TIMEOUT_MS == 2000
NVIM_CONNECTION_TIMEOUT_MS == 2000
contextLines == 100

\* the socket path given at startup (normalised once, immutable afterwards)
SocketPath == "/tmp/nvim.sock"

VARIABLES
  \* --- environment: the socket file and the editor process
  sockExists,     \* the socket file exists
  remote,         \* "up" | "down" | "hung"
  sessionOk,      \* the session behind the stored handle is still served
  sent,           \* keystroke / command calls the editor has received
  exchanged,      \* the first two windows of the current tab are exchanged
  \* --- program
  build,          \* "index" | "mcp"; in SpecCM the version of the exported read
  nvim,           \* the module-level handle: Undefined | Absent | Handle
  notifications,  \* resources/changed notifications sent by the tool handlers
  \* --- the request being handled
  pc,             \* position of the handler
  req,            \* the request
  served,         \* requests received so far
  log,            \* connection events of the request, in order
  calls,          \* remote calls issued by the action of the request
  waited,         \* ms spent waiting for per-call timers that expired
  faults,         \* faults injected into this request
  resp,           \* the response of the request
  \* --- read_state accumulators
  idx,            \* loop indices
  allBuffersInfo,
  tabsInfo,
  windowsInfo,
  result,
  cur,            \* the window being processed (after its head calls)
  seen,           \* the arrangement of the windows when the read fetched its handles
  \* --- calls of the connection utilities made directly (SpecCM)
  last,
  \* --- one call of withTimeout followed event by event (SpecWT)
  race,
  \* --- the change monitoring set up by runServer (part_006)
  monitor,
  \* --- one window of read_state followed call by call (SpecWin)
  win,
  \* --- the handler of another request, suspended inside its action (SpecIL):
  \* "none" | "suspended" | "issued" | "no_handle"
  peer

envVars  == <<sockExists, remote, sessionOk, sent, exchanged>>
progVars == <<build, nvim, notifications>>
reqVars  == <<pc, req, served, log, calls, waited, faults, resp>>
readVars == <<idx, allBuffersInfo, tabsInfo, windowsInfo, result, cur, seen>>
vars     == <<envVars, progVars, reqVars, readVars, last, race, monitor, win, peer>>

(* ------------------------------ values -------------------------------- *)
\* let nvim: any; holds undefined until a connect succeeds or a reset stores null
Undefined == "undefined"
Absent == "absent"
Handle == "handle"

\* a JavaScript value of type number | string
Num(n) == [isNum |-> TRUE, n |-> n, s |-> ""]
Str(s) == [isNum |-> FALSE, n |-> 0, s |-> s]

Contains(text, s) == \E i \in DOMAIN text : text[i] = s

\* an Error is modelled by its message. The message of an error of the editor:
RemoteError == "remote error"
\* an error of the editor whose own message holds the word "Timeout"
RemoteTimeoutError == "Timeout waiting for lock"

\* `${error}` of an Error with the given message: Error.prototype.toString
ErrorString(message) == "Error: " \o message

(* --------------------------- Timeout Guard ---------------------------- *)
\* Promise.race of the operation against a timer. `o` is how the remote
\* operation settles: "ok" (resolves), "err" and "err_timeout" (rejects, with
\* RemoteError and RemoteTimeoutError), "never".
withTimeout(o, timeoutMs, errorMessage) ==
  CASE o = "ok"    -> [settled |-> TRUE, ok |-> TRUE,  error |-> "", waited |-> 0]
    [] o = "err"   -> [settled |-> TRUE, ok |-> FALSE, error |-> RemoteError, waited |-> 0]
    [] o = "err_timeout" -> [settled |-> TRUE, ok |-> FALSE, error |-> RemoteTimeoutError,
                             waited |-> 0]
    [] o = "never" -> [settled |-> TRUE, ok |-> FALSE, error |-> errorMessage,
                       waited |-> timeoutMs]

\* the messages the guard is given by its callers
TimeoutMessages ==
  {"Timeout checking Neovim connection", "Timeout getting current tabpage",
   "Timeout getting current tabpage number", "Timeout getting all tabpages",
   "Timeout getting windows in current tab", "Timeout getting current Neovim window",
   "Timeout getting all buffers", "Timeout getting buffer number",
   "Timeout getting buffer name", "Timeout checking if buffer is loaded",
   "Timeout getting tab number", "Timeout getting tab windows",
   "Timeout getting window number", "Timeout getting window buffer",
   "Timeout checking if buffer is modified", "Timeout getting window position",
   "Timeout getting window width", "Timeout getting window height",
   "Timeout getting current window number", "Timeout getting buffer for window",
   "Timeout getting cursor position", "Timeout getting buffer length",
   "Timeout getting buffer lines", "Timeout getting buffer ID",
   "Timeout making direct nvim_buf_get_lines request",
   "Timeout getting buffer lines section", "Timeout sending normal mode command",
   "Timeout executing command", "Timeout getting Neovim windows",
   "Timeout getting Neovim tabpages", "Timeout getting buffer list",
   "Timeout getting current tab number", "Timeout getting windows for tab",
   "Timeout getting window number in tab", "Timeout getting buffer for window in tab",
   "Timeout getting buffer number for window in tab",
   "Timeout getting buffer name for window in tab"}

\* err.message.includes('Timeout'): a substring test, true of every message
\* the guard is given and of any other error whose message holds the word
IncludesTimeout(message) ==
  \E i \in 1..(Len(message) - 6) : SubSeq(message, i, i + 6) = "Timeout"

(* ------------------------- Connection Manager ------------------------- *)
isNeovimConnected(h) == h # Undefined /\ h # Absent

\* how attach ends for a given editor condition: a hung editor may still
\* have its socket accepted by the kernel. attach is awaited as it is, raced
\* against no timer of the program (the timeout is an option handed to the
\* client library): with an editor that does not answer it resolves, rejects
\* as timed out, or does not settle at all ("never").
AttachOutcomes(rem) ==
  CASE rem = "up"   -> {"ok"}
    [] rem = "hung" -> {"ok", "timeout", "never"}
    [] rem = "down" -> {"refused"}

\* connectToNeovim: h the stored handle, sock whether the socket file exists,
\* a the outcome of attach. Returns the boolean, the handle stored afterwards,
\* whether attach was attempted, whether an exception left the function and
\* whether the function stays at its await of attach (hangs: it returns
\* nothing then).
ConnectDropsHandle(h, sock, a) ==
  IF ~sock
    THEN [ret |-> FALSE, nvim |-> Absent, attached |-> FALSE, threw |-> FALSE,
          hangs |-> FALSE]
    ELSE IF a = "ok"
      THEN [ret |-> TRUE,  nvim |-> Handle, attached |-> TRUE, threw |-> FALSE,
            hangs |-> FALSE]
      ELSE [ret |-> FALSE, nvim |-> h, attached |-> TRUE, threw |-> FALSE,
            hangs |-> a = "never"]

\* (variant) attach awaited outside the try block
ConnectRaising(h, sock, a) ==
  IF ~sock
    THEN [ret |-> FALSE, nvim |-> h, attached |-> FALSE, threw |-> FALSE,
          hangs |-> FALSE]
    ELSE IF a = "ok"
      THEN [ret |-> TRUE,  nvim |-> Handle, attached |-> TRUE, threw |-> FALSE,
            hangs |-> FALSE]
      ELSE [ret |-> FALSE, nvim |-> h, attached |-> TRUE, threw |-> a # "never",
            hangs |-> a = "never"]

connectToNeovim(h, sock, a) ==
  IF ~sock
    THEN [ret |-> FALSE, nvim |-> h, attached |-> FALSE, threw |-> FALSE,
          hangs |-> FALSE]
    ELSE IF a = "ok"
      THEN [ret |-> TRUE,  nvim |-> Handle, attached |-> TRUE, threw |-> FALSE,
            hangs |-> FALSE]
      ELSE [ret |-> FALSE, nvim |-> h, attached |-> TRUE, threw |-> FALSE,
            hangs |-> a = "never"]

\* how the liveness probe (apiInfo) settles
ProbeOutcomes(rem, sess) ==
  IF ~sess THEN {"err", "never"}
  ELSE IF rem = "hung" THEN {"never"} ELSE {"ok"}

\* isNeovimAlive: p the way the probe settles. Returns the boolean, whether
\* the probe was issued, the handle stored afterwards and whether an
\* exception left the function.
\* (variant) a failed probe drops the handle
IsAliveDroppingHandle(h, p) ==
  IF ~isNeovimConnected(h)
    THEN [ret |-> FALSE, probed |-> FALSE, settled |-> TRUE, waited |-> 0,
          nvim |-> h, threw |-> FALSE]
    ELSE LET r == withTimeout(p, NVIM_API_TIMEOUT_MS, "Timeout checking Neovim connection")
         IN  [ret |-> r.ok, probed |-> TRUE, settled |-> r.settled, waited |-> r.waited,
              nvim |-> IF r.ok THEN h ELSE Absent, threw |-> FALSE]

\* (variant) the rejection of the probe is not looked at
IsAliveTrustingHandle(h, p) ==
  IF ~isNeovimConnected(h)
    THEN [ret |-> FALSE, probed |-> FALSE, settled |-> TRUE, waited |-> 0,
          nvim |-> h, threw |-> FALSE]
    ELSE LET r == withTimeout(p, NVIM_API_TIMEOUT_MS, "Timeout checking Neovim connection")
         IN  [ret |-> TRUE, probed |-> TRUE, settled |-> r.settled, waited |-> r.waited,
              nvim |-> h, threw |-> FALSE]

isNeovimAlive(h, p) ==
  IF ~isNeovimConnected(h)
    THEN [ret |-> FALSE, probed |-> FALSE, settled |-> TRUE, waited |-> 0,
          nvim |-> h, threw |-> FALSE]
    ELSE LET r == withTimeout(p, NVIM_API_TIMEOUT_MS, "Timeout checking Neovim connection")
         IN  [ret |-> r.ok, probed |-> TRUE, settled |-> r.settled, waited |-> r.waited,
              nvim |-> h, threw |-> FALSE]

\* (variant) reset that leaves the handle in place
ResetKeepingHandle(h) == h

resetNvimConnection(h) == Absent

getNvim(h) == h

\* the session served by the editor after a connect
SessionAfter(c, sess) == IF c.ret THEN TRUE ELSE sess

(* ------------------------------ editor -------------------------------- *)
\* The editor's state as the remote calls report it. Buffers are listed in
\* ascending number; the current tab is tab 1 and holds windows 1..NumWindows
\* side by side; every other tab holds one window.
EdBuffers == [i \in 1..NumBuffers |-> i]
EdBufName(b) == IF b % 2 = 1 THEN "a.txt" ELSE ""
EdBufLoaded(b) == b % 2 = 1
EdBufModified(b) == b % 2 = 0
EdTabs == [t \in 1..NumTabs |-> t]
EdCurrentTab == 1
EdTabWindows(t) ==
  IF t = EdCurrentTab THEN [w \in 1..NumWindows |-> w] ELSE <<NumWindows + t - 1>>
EdAllWindows == [w \in 1..(NumWindows + NumTabs - 1) |-> w]
EdWinNumber(w) == IF w <= NumWindows THEN w ELSE 1
EdWinBuffer(w) == ((w - 1) % NumBuffers) + 1
EdWinPosition(w) == [row |-> 0, col |-> IF w <= NumWindows THEN 40 * (w - 1) ELSE 0,
                     width |-> 40, height |-> 20]
EdCurrentWindow == 1
\* CTRL-W x in the current tab: the first two windows change places, each
\* keeping its handle, buffer and cursor; the editor numbers its windows by
\* place. With x (exchanged) the window at the place of w is Arranged(w, x),
\* and the focus is on the window at the place of EdCurrentWindow.
Arranged(w, x) == IF x /\ w \in {1, 2} THEN 3 - w ELSE w
EdWinCursor(w) == <<1, 0>>
EdBufLength(b) == b

\* how a remote call made by an action may settle now
CallOutcomesAt(f) ==
  IF ~sessionOk THEN {"err", "never"}
  ELSE IF remote = "hung" THEN {"never"}
  ELSE {"ok"} \cup (IF f < MaxFaults THEN {"err", "err_timeout", "never"} ELSE {})

CallOutcomes == CallOutcomesAt(faults)

\* a fault injected into a responsive editor uses up the budget
FaultCost(o) == IF o # "ok" /\ sessionOk /\ remote = "up" THEN 1 ELSE 0

(* ----------------------------- responses ------------------------------ *)
NoReport == [tabs |-> <<>>, buffers |-> <<>>, windows |-> <<>>]
NoResp == [kind |-> "none", isError |-> FALSE, text |-> <<>>,
           report |-> NoReport, json |-> NoReport]

Result(text)    == [NoResp EXCEPT !.kind = "result", !.text = text]
ErrorResult(text) == [NoResp EXCEPT !.kind = "result", !.isError = TRUE, !.text = text]
Thrown(text)    == [NoResp EXCEPT !.kind = "exception", !.text = text]

\* index.ts 689-700, part_006 695-706
CouldNotConnectText(p) ==
  <<"Error: Could not connect to Neovim at ", p,
    "This is likely because: 1. Neovim is not running 2. Neovim was not started with the '--listen ",
    p, "' option 3. The connection timed out after 2000ms",
    "Please start Neovim with: nvim --listen ", p>>

\* index.ts 717-726, part_006 720-729
LostConnectionText(p) ==
  <<"Error: Lost connection to Neovim.",
    "The Neovim process may have been closed or crashed.",
    "Attempted to reconnect but failed after 2000ms.",
    "Please ensure Neovim is running with: nvim --listen ", p>>

\* part_006 217, wrapped by the resource handler at 679
ReadCouldNotConnectText(p) ==
  <<"Error reading buffer resource: ", "Could not connect to Neovim at ", p,
    "Make sure Neovim is running with '--listen ", p, "'.">>

\* index.ts 1236-1238, 1283-1286, 1331-1334; part_006 541-543. what: the
\* line naming the failed action, when there is one
TimedOutText(p, what) ==
  <<"Neovim RPC operation timed out after 2000ms.",
    "The Neovim process may have been closed or become unresponsive.">>
  \o what \o <<"Please check if Neovim is still running and listening on ", p>>

ListenPrefixes ==
  {"Please start Neovim with: nvim --listen ",
   "Please ensure Neovim is running with: nvim --listen ",
   "Make sure Neovim is running with '--listen ",
   "This is likely because: 1. Neovim is not running 2. Neovim was not started with the '--listen "}

\* the text names the remote-listen invocation for path p
HasListenInvocation(text, p) ==
  \E i \in DOMAIN text : text[i] \in ListenPrefixes /\ i + 1 \in DOMAIN text /\ text[i + 1] = p

(* ------------------------------ requests ------------------------------ *)
Keys == {"iHello<Esc>"}
Commands == {"w /tmp/out.txt"}

Requests(b) ==
  IF b = "index"
    THEN {[name |-> "view_buffers", argsOk |-> TRUE, arg |-> ""],
          [name |-> "bogus_tool", argsOk |-> TRUE, arg |-> ""]}
         \cup [name : {"send_normal_mode"}, argsOk : BOOLEAN, arg : Keys]
         \cup [name : {"send_command_mode"}, argsOk : BOOLEAN, arg : Commands]
    ELSE {[name |-> "resources/read", argsOk |-> TRUE, arg |-> ""]}
         \cup [name : {"send_normal_mode"}, argsOk : {TRUE}, arg : Keys]
         \cup [name : {"send_command_mode"}, argsOk : {TRUE}, arg : Commands]

NoReq == [name |-> "none", argsOk |-> TRUE, arg |-> ""]

\* index.ts 685/702 and part_006 691/708 probe an existing handle;
\* getBufferContents (part_006 213) only tests that a handle exists
ProbesHandle(b, r) == ~(b = "mcp" /\ r.name = "resources/read")

\* (variant) whatever is not a write action is served as a read
IsReadOrUnknown(r) == r.name \notin {"send_normal_mode", "send_command_mode"}

IsRead(r) == r.name \in {"view_buffers", "resources/read"}

NoIdx == [i |-> 0, j |-> 0]
NoCur == [w |-> 0, full |-> "none", number |-> 0, isCurrentWindow |-> FALSE]
\* whether the windows were exchanged when the read fetched the current
\* window, the window list and the windows of the tab being walked
NoSeen == [current |-> FALSE, shown |-> FALSE, tab |-> FALSE]
\* the record of a call of a connection utility: its inputs (sock, before,
\* outcome), its results (ret, attached, waited, threw), the editor as the
\* call left it (env), the call made before it (prev, prevRet) and whether
\* the editor was then as that call had left it (quiet)
NoLast == [op |-> "none", sock |-> FALSE, ret |-> FALSE, before |-> Absent,
           attached |-> FALSE, waited |-> 0, threw |-> FALSE, outcome |-> "none",
           env |-> <<"none", FALSE>>, prev |-> "none", prevRet |-> FALSE,
           quiet |-> FALSE]

\* no call of withTimeout is being followed
NoRace == [phase |-> "none", op |-> "ok", first |-> "op", timeoutMs |-> 0,
           errorMessage |-> "", promise |-> [state |-> "pending", value |-> ""],
           opDone |-> FALSE, timerDone |-> FALSE, settlements |-> 0]

\* state: "off" (runServer has set up nothing), "pending" (runServer awaits
\* the reply to a command of the setup), "on" (the notification handler is
\* registered), "failed" (the try of the setup was left by an exception);
\* raw: commands issued with no timer so far; live: the editor still serves
\* the client object the awaited command was issued on or, once "on", the
\* one that carries the handler (a reset of the module-level handle closes
\* nothing); subscribed: the editor holds the autocommands that report
\* changes; report: what became of a change the editor reported ("none"
\* while it has reported nothing)
NoMonitor == [state |-> "off", raw |-> 0, live |-> FALSE, subscribed |-> FALSE,
              report |-> "none"]

\* no entry has been pushed for the window
NoEntry ==
  [placeholder |-> TRUE, windowNumber |-> Str("none"), isCurrentWindow |-> FALSE,
   isActiveBuffer |-> FALSE, bufferNumber |-> Str("none"), bufferName |-> "",
   cursor |-> <<0, 0>>, hasTotalLines |-> FALSE, totalLines |-> 0, hasRange |-> FALSE,
   visibleRange |-> [startLine |-> 0, endLine |-> 0, context |-> 0],
   content |-> <<>>, diag |-> ""]

\* no window is being followed. index: the place of the window in the loop;
\* pushed: the entries pushed by the loop so far; before: what the loop
\* pushed for the window before this one ("none" for the first window,
\* "entry", "diag" for an entry whose content is the diagnostic line,
\* "placeholder") and the number that window had; arranged: the arrangement
\* of the windows when the window was asked for its number
NoWin == [phase |-> "none", ed |-> [lines |-> 1, cursor |-> <<1, 0>>],
          number |-> 1, arranged |-> FALSE,
          currentNumber |-> 1, focused |-> TRUE, edits |-> 0,
          isCurrentWindow |-> FALSE, cursor |-> <<0, 0>>, lineCount |-> 0,
          issued |-> <<>>, atFetch |-> 0, fetched |-> FALSE, entry |-> NoEntry,
          index |-> 1, pushed |-> 0, before |-> [kind |-> "none", number |-> 0]]

(* ------------------------------- Init --------------------------------- *)
Init ==
  /\ sockExists \in BOOLEAN
  /\ remote \in {"up", "down", "hung"}
  /\ sessionOk = FALSE
  /\ sent = <<>>
  /\ exchanged = FALSE
  /\ build \in {"index", "mcp"}
  /\ nvim = Undefined
  /\ notifications = 0
  /\ pc = "startup"
  /\ req = NoReq
  /\ served = 0
  /\ log = <<>>
  /\ calls = 0
  /\ waited = 0
  /\ faults = 0
  /\ resp = NoResp
  /\ idx = NoIdx
  /\ allBuffersInfo = <<>>
  /\ tabsInfo = <<>>
  /\ windowsInfo = <<>>
  /\ result = <<>>
  /\ cur = NoCur
  /\ seen = NoSeen
  /\ last = NoLast
  /\ race = NoRace
  /\ monitor = NoMonitor
  /\ win = NoWin
  /\ peer = "none"

(* --------------------------- environment ------------------------------ *)
\* The editor and the socket file change at any time. While the server is
\* idle the program calls the editor in the monitoring setup only, which
\* sees the editor as it is then; any other change made while idle is seen
\* in the next request only, so it is taken once that request is received.
EnvMayChange ==
  \/ pc \in {"startup", "check", "reconnect", "dispatch", "api"}
  \/ pc = "idle" /\ monitor.state = "pending" /\ served = 0

\* the positions of a handler inside its action, between two awaited calls
\* ("window": inside the calls of one window, SpecWin)
ActionPcs == {"keys", "cmd", "vb_pre", "vb_buf", "vb_tab", "vb_tabwin", "vb_win",
              "vb_full", "vb_section", "window"}

\* the editor exits, hangs or recovers, also between two calls of an action;
\* the calls issued afterwards settle as the editor then is (CallOutcomes)
RemoteChange ==
  /\ EnvMayChange \/ (pc \in ActionPcs /\ faults < MaxFaults)
  /\ \E r \in {"up", "down", "hung"} \ {remote} :
       /\ remote' = r
       /\ sessionOk' = IF r = "down" THEN FALSE ELSE sessionOk
       \* an editor that exits takes its autocommands with it and closes
       \* the connection of every client
       /\ monitor' = IF r = "down"
                        THEN [monitor EXCEPT !.subscribed = FALSE, !.live = FALSE]
                        ELSE monitor
  /\ faults' = IF pc \in ActionPcs THEN faults + 1 ELSE faults
  /\ UNCHANGED <<sockExists, sent, progVars, pc, req, served, log, calls, waited, resp,
                 readVars, last, race, win, peer, exchanged>>

\* the user exchanges the first two windows of the current tab (CTRL-W x)
\* between two calls of an action; the exchange is counted among the faults
\* of the request, and the windows stay as they are for the next request
WindowExchange ==
  /\ NumWindows >= 2
  /\ remote = "up"
  /\ pc \in ActionPcs /\ faults < MaxFaults
  /\ exchanged' = ~exchanged
  /\ faults' = faults + 1
  /\ UNCHANGED <<sockExists, remote, sessionOk, sent, progVars, pc, req, served, log, calls,
                 waited, resp, readVars, last, race, monitor, win, peer>>

SocketChange ==
  /\ EnvMayChange
  /\ sockExists' = ~sockExists
  /\ UNCHANGED <<remote, sessionOk, sent, exchanged, progVars, reqVars, readVars, last, race,
                 monitor, win, peer>>

(* ------------------------------ startup ------------------------------- *)
\* the events of a connect; one that stays at its await of attach returns
\* nothing
ConnectEvents(c) ==
  <<"connect">> \o (IF c.attached THEN <<"attach">> ELSE <<>>)
                \o (IF c.hangs THEN <<>>
                    ELSE <<IF c.ret THEN "connect:true" ELSE "connect:false">>)

\* (variant) runServer gives up when the connect attempt fails
RunServerExiting ==
  /\ pc = "startup"
  /\ \E a \in AttachOutcomes(remote) :
       LET c == connectToNeovim(nvim, sockExists, a) IN
         /\ nvim' = c.nvim
         /\ sessionOk' = SessionAfter(c, sessionOk)
         /\ pc' = (IF c.hangs THEN "attaching" ELSE IF c.ret THEN "idle" ELSE "exited")
         /\ monitor' = IF build = "mcp" /\ c.ret
                         THEN [monitor EXCEPT !.state = "pending", !.raw = 1, !.live = TRUE]
                         ELSE monitor
  /\ UNCHANGED <<sockExists, remote, sent, build, notifications, req, served, log,
                 calls, waited, faults, resp, readVars, last, race, win, peer, exchanged>>

\* runServer: one connect attempt, then the server serves whatever it
\* returned (a connect that does not return leaves runServer at its await:
\* the transport is never connected). part_006 goes on to set up change
\* monitoring when connected: once server.connect has resolved it issues the
\* first command of the setup on the handle just stored.
RunServer ==
  /\ pc = "startup"
  /\ \E a \in AttachOutcomes(remote) :
       LET c == connectToNeovim(nvim, sockExists, a) IN
         /\ nvim' = c.nvim
         /\ sessionOk' = SessionAfter(c, sessionOk)
         /\ monitor' = IF build = "mcp" /\ c.ret
                         THEN [monitor EXCEPT !.state = "pending", !.raw = 1, !.live = TRUE]
                         ELSE monitor
         /\ pc' = (IF c.hangs THEN "attaching" ELSE "idle")
  /\ UNCHANGED <<sockExists, remote, sent, build, notifications, req, served, log,
                 calls, waited, faults, resp, readVars, last, race, win, peer, exchanged>>

\* how a command awaited with no timer ends (part_006 916-919), m the
\* monitoring state: the editor answers once it is responsive; when the
\* client's connection is gone the call is rejected or never settles; while
\* the editor hangs nothing settles
RawOutcomes(m) ==
  IF ~m.live THEN {"err", "never"}
  ELSE IF remote = "up" THEN {"ok"} ELSE {"never"}

\* the commands of the monitoring setup
MonitorCommands ==
  <<"augroup MCPBufferMonitor", "autocmd!",
    "autocmd BufEnter,BufWritePost,CursorMoved,CursorMovedI * call rpcnotify(0, \"buffer_changed\")",
    "augroup END">>

\* part_006 913-937, one step per awaited command: the command issued last
\* settles; when the editor has answered, the continuation issues the next
\* command, or registers the handler after the last one, on whatever the
\* module-level handle holds by then (a handler may have reset it in the
\* meantime: a call on null raises a TypeError, caught at 936). The second
\* command empties the autocommand group, the third one defines the
\* autocommand. The steps are taken between the steps of the request
\* handlers; inside an action they change nothing the action reads.
SetupMonitor ==
  /\ monitor.state = "pending"
  /\ pc \in {"idle", "check", "reconnect", "dispatch"}
  /\ \E o \in RawOutcomes(monitor) \ {"never"} :
       LET sub == CASE monitor.raw = 2 -> FALSE
                    [] monitor.raw = 3 -> TRUE
                    [] OTHER -> monitor.subscribed
       IN
       monitor' =
         CASE o = "err" -> [monitor EXCEPT !.state = "failed"]
           [] o = "ok" /\ ~isNeovimConnected(nvim) ->
                [monitor EXCEPT !.state = "failed", !.subscribed = sub]
           [] o = "ok" /\ isNeovimConnected(nvim) /\ monitor.raw < Len(MonitorCommands) ->
                [monitor EXCEPT !.raw = @ + 1, !.live = sessionOk, !.subscribed = sub]
           [] OTHER ->
                [monitor EXCEPT !.state = "on", !.live = sessionOk, !.subscribed = sub]
  /\ UNCHANGED <<envVars, progVars, reqVars, readVars, last, race, win, peer>>

\* part_006 922-933: nvim.on('notification', ...) is called once, on the
\* client object the module-level handle holds when the setup completes; no
\* connect made later registers it again, and no reset of the handle closes
\* the client that carries it
Forwards(m) == m.state = "on" /\ m.live

\* the autocommands are state of the editor, not of the client that defined
\* them: an editor may hold them from an earlier run of the server, whose
\* setup completed, when this run starts
EditorSubscribed ==
  /\ build = "mcp"
  /\ pc = "startup"
  /\ remote # "down"
  /\ ~monitor.subscribed
  /\ monitor' = [monitor EXCEPT !.subscribed = TRUE]
  /\ UNCHANGED <<envVars, progVars, reqVars, readVars, last, race, win, peer>>

\* the editor runs an autocommand: rpcnotify(0, "buffer_changed") reaches every
\* client attached to it; the server forwards resources/changed when a
\* client object that receives it carries the handler. Neither the editor
\* nor the handler reads the module-level handle: a report made after the
\* handle was reset is forwarded as well when the client of the setup is
\* still served. One report is followed, made once the requests of the run
\* have been served. index.ts declares no resource and listens to no
\* notification of the editor.
EditorReports ==
  /\ build = "mcp"
  /\ pc = "idle"
  /\ served = MaxRequests
  /\ monitor.subscribed
  /\ monitor.report = "none"
  /\ remote = "up"
  /\ monitor' = [monitor EXCEPT !.report = IF Forwards(monitor) THEN "forwarded"
                                           ELSE "dropped"]
  /\ UNCHANGED <<envVars, progVars, reqVars, readVars, last, race, win, peer>>

(* ----------------------------- dispatcher ----------------------------- *)
Receive ==
  /\ pc = "idle"
  /\ served < MaxRequests
  /\ \E r \in Requests(build) : req' = r
  /\ served' = served + 1
  /\ pc' = "check"
  /\ log' = <<>>
  /\ calls' = 0
  /\ waited' = 0
  /\ faults' = 0
  /\ resp' = NoResp
  /\ UNCHANGED <<envVars, progVars, readVars, last, race, monitor, win, peer>>

\* the handler returns (or throws) r; the exported viewBuffers called
\* directly returns to its caller, whose later calls are not followed
Respond(r) ==
  /\ resp' = r
  /\ pc' = (IF build \in {"index", "mcp"} THEN "idle" ELSE "returned")
  /\ idx' = NoIdx
  /\ allBuffersInfo' = <<>>
  /\ tabsInfo' = <<>>
  /\ windowsInfo' = <<>>
  /\ result' = <<>>
  /\ cur' = NoCur
  /\ seen' = NoSeen

ConnectFailure(b, r) ==
  IF b = "mcp" /\ r.name = "resources/read"
    THEN Thrown(ReadCouldNotConnectText(SocketPath))
    ELSE ErrorResult(CouldNotConnectText(SocketPath))

\* (variant) no handle: connect, then probe the fresh handle
CheckConnectProbing ==
  /\ pc = "check"
  /\ ~isNeovimConnected(nvim)
  /\ \E a \in AttachOutcomes(remote) :
       LET c == connectToNeovim(nvim, sockExists, a) IN
         /\ nvim' = c.nvim
         /\ sessionOk' = SessionAfter(c, sessionOk)
         /\ IF c.ret
              THEN /\ log' = log \o ConnectEvents(c) \o <<"probe", "probe:true">>
                   /\ pc' = "dispatch"
                   /\ UNCHANGED <<resp, readVars>>
              ELSE /\ log' = log \o ConnectEvents(c)
                   /\ IF c.hangs THEN pc' = "attaching" /\ UNCHANGED <<resp, readVars>>
                      ELSE Respond(ConnectFailure(build, req))
  /\ UNCHANGED <<sockExists, remote, sent, build, notifications, req, served,
                 calls, waited, faults, last, race, monitor, win, peer, exchanged>>

\* no handle: connect once
CheckConnect ==
  /\ pc = "check"
  /\ ~isNeovimConnected(nvim)
  /\ \E a \in AttachOutcomes(remote) :
       LET c == connectToNeovim(nvim, sockExists, a) IN
         /\ nvim' = c.nvim
         /\ sessionOk' = SessionAfter(c, sessionOk)
         /\ log' = log \o ConnectEvents(c)
         /\ CASE c.ret -> pc' = "dispatch" /\ UNCHANGED <<resp, readVars>>
              [] c.hangs -> pc' = "attaching" /\ UNCHANGED <<resp, readVars>>
              [] OTHER -> Respond(ConnectFailure(build, req))
  /\ UNCHANGED <<sockExists, remote, sent, build, notifications, req, served,
                 calls, waited, faults, last, race, monitor, win, peer, exchanged>>

\* a handle exists: probe it; a failed probe resets the handle
CheckAlive ==
  /\ pc = "check"
  /\ isNeovimConnected(nvim)
  /\ ProbesHandle(build, req)
  /\ \E p \in ProbeOutcomes(remote, sessionOk) :
       LET a == isNeovimAlive(nvim, p) IN
         /\ a.settled
         /\ IF a.ret
              THEN /\ log' = log \o <<"probe", "probe:true">>
                   /\ pc' = "dispatch"
                   /\ nvim' = a.nvim
                   /\ UNCHANGED sessionOk
              ELSE /\ log' = log \o <<"probe", "probe:false", "reset">>
                   /\ nvim' = resetNvimConnection(a.nvim)
                   /\ sessionOk' = FALSE
                   /\ pc' = "reconnect"
  /\ UNCHANGED <<sockExists, remote, sent, build, notifications, req, served,
                 calls, waited, faults, resp, readVars, last, race, monitor, win, peer,
                 exchanged>>

\* getBufferContents: a handle exists, nothing more is checked
CheckHandleOnly ==
  /\ pc = "check"
  /\ isNeovimConnected(nvim)
  /\ ~ProbesHandle(build, req)
  /\ pc' = "dispatch"
  /\ UNCHANGED <<envVars, progVars, req, served, log, calls, waited, faults, resp,
                 readVars, last, race, monitor, win, peer>>

\* (variant) after the reset: connect, and connect again when it fails
ReconnectRetrying ==
  /\ pc = "reconnect"
  /\ \E a \in AttachOutcomes(remote) :
       LET c == connectToNeovim(nvim, sockExists, a) IN
         /\ nvim' = c.nvim
         /\ sessionOk' = SessionAfter(c, sessionOk)
         /\ log' = log \o ConnectEvents(c)
         /\ pc' = (IF c.ret THEN "dispatch" ELSE IF c.hangs THEN "attaching" ELSE "reconnect")
  /\ UNCHANGED <<sockExists, remote, sent, build, notifications, req, served,
                 calls, waited, faults, resp, readVars, last, race, monitor, win, peer, exchanged>>

\* after the reset: connect once more
Reconnect ==
  /\ pc = "reconnect"
  /\ \E a \in AttachOutcomes(remote) :
       LET c == connectToNeovim(nvim, sockExists, a) IN
         /\ nvim' = c.nvim
         /\ sessionOk' = SessionAfter(c, sessionOk)
         /\ log' = log \o ConnectEvents(c)
         /\ CASE c.ret -> pc' = "dispatch" /\ UNCHANGED <<resp, readVars>>
              [] c.hangs -> pc' = "attaching" /\ UNCHANGED <<resp, readVars>>
              [] OTHER -> Respond(ErrorResult(LostConnectionText(SocketPath)))
  /\ UNCHANGED <<sockExists, remote, sent, build, notifications, req, served,
                 calls, waited, faults, last, race, monitor, win, peer, exchanged>>

\* switch (name)
Dispatch ==
  /\ pc = "dispatch"
  /\ CASE IsRead(req) ->
            pc' = "vb_pre" /\ UNCHANGED <<resp, readVars>>
       [] req.name \in {"send_normal_mode", "send_command_mode"} /\ req.argsOk ->
            pc' = (IF req.name = "send_normal_mode" THEN "keys" ELSE "cmd")
            /\ UNCHANGED <<resp, readVars>>
       [] req.name \in {"send_normal_mode", "send_command_mode"} /\ ~req.argsOk ->
            Respond(ErrorResult(<<"Error: ", "Invalid arguments for ", req.name>>))
       [] OTHER ->
            Respond(ErrorResult(<<"Error: ", "Unknown tool: ", req.name>>))
  /\ UNCHANGED <<envVars, progVars, req, served, log, calls, waited, faults, last, race, monitor, win, peer>>

(* --------------------------- write actions ---------------------------- *)
\* the catch of a write action: failed names the action in the timeout text,
\* other starts the text of any other error
CallFailure(r, failed, other, arg) ==
  IF IncludesTimeout(r.error)
    THEN ErrorResult(<<"Error: ">> \o TimedOutText(SocketPath, <<failed, arg>>))
    ELSE ErrorResult(<<other, ErrorString(r.error)>>)

\* (variant) the call is written to the session twice
IssueCallTwice(s, e) == Append(Append(s, e), e)

\* nvim.command / nvim.commandOutput write one request to the session; the
\* editor takes the requests of a session in the order they were written
IssueCall(s, e) == Append(s, e)

\* (variant) the notification is sent whether or not the call succeeded
NotifiesAlways(b, r) == b = "mcp"

\* part_006 742-749 and 852-859: the notification call follows the awaited
\* call inside the try, so a failed call skips it; index.ts has no such call
NotifiesChange(b, r) == b = "mcp" /\ r.ok

\* (variant) a failed or timed-out call drops the handle
SendNormalModeDropping ==
  /\ pc = "keys"
  /\ \E o \in CallOutcomes :
       LET r == withTimeout(o, NVIM_RPC_TIMEOUT_MS, "Timeout sending normal mode command") IN
         /\ r.settled
         /\ calls' = calls + 1
         /\ waited' = waited + r.waited
         /\ faults' = faults + FaultCost(o)
         /\ sent' = IF sessionOk
                      THEN IssueCall(sent, [method |-> "command", prefix |-> "normal! ",
                                            arg |-> req.arg, ok |-> r.ok])
                      ELSE sent
         /\ nvim' = IF r.ok THEN nvim ELSE Absent
         /\ IF NotifiesChange(build, r)
              THEN pc' = "notify" /\ UNCHANGED <<resp, readVars>>
              ELSE IF r.ok
                THEN Respond(Result(<<"Successfully sent normal mode keystrokes: ", req.arg>>))
                ELSE Respond(CallFailure(r, "Failed to send normal mode keystrokes: ",
                                         "Error sending normal mode keystrokes: ", req.arg))
  /\ UNCHANGED <<sockExists, remote, sessionOk, build, notifications, req, served,
                 log, last, race, monitor, win, peer, exchanged>>

\* send_normal_mode: one timed nvim.command(`normal! ${keys}`)
SendNormalMode ==
  /\ pc = "keys"
  /\ \E o \in CallOutcomes :
       LET r == withTimeout(o, NVIM_RPC_TIMEOUT_MS, "Timeout sending normal mode command") IN
         /\ r.settled
         /\ calls' = calls + 1
         /\ waited' = waited + r.waited
         /\ faults' = faults + FaultCost(o)
         /\ sent' = IF sessionOk
                      THEN IssueCall(sent, [method |-> "command", prefix |-> "normal! ",
                                            arg |-> req.arg, ok |-> r.ok])
                      ELSE sent
         /\ IF NotifiesChange(build, r)
              THEN pc' = "notify" /\ UNCHANGED <<resp, readVars>>
              ELSE IF r.ok
                THEN Respond(Result(<<"Successfully sent normal mode keystrokes: ", req.arg>>))
                ELSE Respond(CallFailure(r, "Failed to send normal mode keystrokes: ",
                                         "Error sending normal mode keystrokes: ", req.arg))
  /\ UNCHANGED <<sockExists, remote, sessionOk, build, nvim, notifications, req, served,
                 log, last, race, monitor, win, peer, exchanged>>

\* send_command_mode: one timed nvim.commandOutput(command)
SendCommandMode ==
  /\ pc = "cmd"
  /\ \E o \in CallOutcomes :
       LET r == withTimeout(o, NVIM_RPC_TIMEOUT_MS, "Timeout executing command") IN
         /\ r.settled
         /\ calls' = calls + 1
         /\ waited' = waited + r.waited
         /\ faults' = faults + FaultCost(o)
         /\ sent' = IF sessionOk
                      THEN IssueCall(sent, [method |-> "commandOutput", prefix |-> "",
                                            arg |-> req.arg, ok |-> r.ok])
                      ELSE sent
         /\ IF NotifiesChange(build, r)
              THEN pc' = "notify" /\ UNCHANGED <<resp, readVars>>
              ELSE IF r.ok
                THEN Respond(Result(<<"Command: ", req.arg, "Output:">>))
                ELSE Respond(CallFailure(r, "Failed to execute command: ",
                                         "Error executing command: ", req.arg))
  /\ UNCHANGED <<sockExists, remote, sessionOk, build, nvim, notifications, req, served,
                 log, last, race, monitor, win, peer, exchanged>>

\* part_006 742-755 and 852-866: server.server.notification(resources/changed),
\* then the success result is returned
NotifyChanged ==
  /\ pc = "notify"
  /\ notifications' = notifications + 1
  /\ IF req.name = "send_normal_mode"
       THEN Respond(Result(<<"Successfully sent normal mode keystrokes: ", req.arg>>))
       ELSE Respond(Result(<<"Command: ", req.arg, "Output:">>))
  /\ UNCHANGED <<envVars, build, nvim, req, served, log, calls, waited, faults,
                 last, race, monitor, win, peer>>

(* ---------------------------- read_state ------------------------------ *)
\* A unit is the run of timed calls of one try block: the first call that
\* fails (k) ends it with failure o; k = 0 when every call resolves.
\* Any call of the unit may be the one that fails. The editor may change
\* between two calls of the unit: before call `at` it exits ("down"), stops
\* answering ("hung") or has its windows exchanged ("exchange"); chg is
\* "same" when it does not. A change before the first call of a unit is a
\* step of the environment.
FaultPositions(n) == 1..n

UnitChoices(n) ==
  {[k |-> 0, o |-> "ok", chg |-> "same", at |-> 0] :
     x \in (IF "ok" \in CallOutcomes THEN {1} ELSE {})}
  \cup {c \in [k : FaultPositions(n), o : CallOutcomes \ {"ok"}, chg : {"same"}, at : {0}] :
          c.k = 1 \/ "ok" \in CallOutcomes}
  \cup {c \in [k : 0..n, o : {"ok", "err", "err_timeout", "never"},
                chg : {"down", "hung", "exchange"}, at : FaultPositions(n) \ {1}] :
          /\ sessionOk /\ remote = "up" /\ faults < MaxFaults
          /\ CASE c.chg = "down" -> c.k = c.at /\ c.o \in {"err", "never"}
               [] c.chg = "hung" -> c.k = c.at /\ c.o = "never"
               [] OTHER -> /\ NumWindows >= 2
                           /\ IF c.k = 0 THEN c.o = "ok"
                              ELSE /\ c.k >= c.at
                                   /\ c.o \in CallOutcomesAt(faults + 1) \ {"ok"}}

\* the arrangement of the windows when call j of a unit is made
ExchangedAt(c, j) == IF c.chg = "exchange" /\ j >= c.at THEN ~exchanged ELSE exchanged

UnitIssued(n, c) == IF c.k = 0 THEN n ELSE c.k

UnitResult(msgs, c) ==
  withTimeout(c.o, NVIM_RPC_TIMEOUT_MS, IF c.k = 0 THEN "" ELSE msgs[c.k])

\* index.ts 736-773 (send-normal-mode.ts 84-121 and part_007 82-119 alike);
\* part_006 223-252; view-buffers.ts 19-28
PreambleCalls(b) ==
  CASE b \in {"index", "actions_tabs", "actions_layout"} ->
         <<"Timeout getting current tabpage", "Timeout getting current tabpage number",
           "Timeout getting all tabpages", "Timeout getting windows in current tab",
           "Timeout getting current Neovim window", "Timeout getting all buffers">>
    [] b = "mcp" ->
         <<"Timeout getting Neovim windows", "Timeout getting current Neovim window",
           "Timeout getting Neovim tabpages", "Timeout getting current tabpage",
           "Timeout getting buffer list">>
    [] b = "actions" ->
         <<"Timeout getting Neovim windows", "Timeout getting current Neovim window">>

\* index.ts 779-796; part_006 258-274
BufferCalls ==
  <<"Timeout getting buffer number", "Timeout getting buffer name",
    "Timeout checking if buffer is loaded">>

\* index.ts 816-826 (send-normal-mode.ts 164-174, part_007 162-172); part_006
\* 294-311
TabHeadCalls(b) ==
  IF b = "mcp"
    THEN <<"Timeout getting tab number", "Timeout getting current tab number",
           "Timeout getting windows for tab">>
    ELSE <<"Timeout getting tab number", "Timeout getting tab windows">>

\* index.ts 831-879; part_006 316-338; send-normal-mode.ts 179-210 (no call
\* for the modified flag, the position or the size); part_007 177-240
TabWinCalls(b) ==
  CASE b = "index" ->
         <<"Timeout getting window number", "Timeout getting window buffer",
           "Timeout getting buffer number", "Timeout getting buffer name",
           "Timeout checking if buffer is modified", "Timeout getting window position",
           "Timeout getting window width", "Timeout getting window height">>
    [] b = "mcp" ->
         <<"Timeout getting window number in tab", "Timeout getting buffer for window in tab",
           "Timeout getting buffer number for window in tab",
           "Timeout getting buffer name for window in tab">>
    [] b = "actions_tabs" ->
         <<"Timeout getting window number", "Timeout getting buffer for window",
           "Timeout getting buffer number", "Timeout getting buffer name">>
    [] b = "actions_layout" ->
         <<"Timeout getting window number", "Timeout getting buffer for window",
           "Timeout getting buffer number", "Timeout getting buffer name",
           "Timeout checking if buffer is modified", "Timeout getting window position",
           "Timeout getting window width", "Timeout getting window height">>

\* index.ts 944-999; part_006 375-437
WinHeadCalls ==
  <<"Timeout getting window number", "Timeout getting current window number",
    "Timeout getting buffer for window", "Timeout getting buffer name",
    "Timeout getting buffer number", "Timeout getting cursor position",
    "Timeout getting buffer length">>

\* the windows of the detailed section: index.ts, send-normal-mode.ts 79 and
\* part_007 walk currentTabpage.windows, part_006 and view-buffers.ts walk
\* nvim.windows (the windows of every tab)
WindowsShown(b) == IF b \in {"mcp", "actions"} THEN EdAllWindows ELSE EdTabWindows(EdCurrentTab)

\* the failure of the calls made before the loops ends the read. index.ts
\* 1228-1252 renders `${error}`; part_006 677-680 renders error.message;
\* view-buffers.ts 254-278, send-normal-mode.ts 493-517 and part_007 588-612
\* name no socket path in their timeout text.
ReadFailure(b, r) ==
  CASE b = "index" ->
         IF IncludesTimeout(r.error)
           THEN ErrorResult(<<"Error: ">> \o TimedOutText(SocketPath, <<>>))
           ELSE ErrorResult(<<"Error in view_buffers: ", ErrorString(r.error)>>)
    [] b = "mcp" ->
         IF IncludesTimeout(r.error)
           THEN Thrown(<<"Error reading buffer resource: ">>
                       \o TimedOutText(SocketPath, <<>>))
           ELSE Thrown(<<"Error reading buffer resource: ", r.error>>)
    [] OTHER ->
         IF IncludesTimeout(r.error)
           THEN ErrorResult(<<"Error: ", "Neovim RPC operation timed out after 2000ms.",
                              "The Neovim process may have been closed or become unresponsive.",
                              "Please check if Neovim is still running and listening.">>)
           ELSE ErrorResult(<<"Error in view_buffers: ", ErrorString(r.error)>>)

(* entries *)
BufferEntry(b, bn) ==
  [number |-> Num(bn),
   name |-> IF EdBufName(bn) = "" THEN (IF b = "mcp" THEN "[No Name]" ELSE "Unnamed")
            ELSE EdBufName(bn),
   isLoaded |-> EdBufLoaded(bn), diag |-> ""]

BufferPlaceholder(b, r) ==
  [number |-> Str("Error"),
   name |-> IF b = "mcp" THEN "Error getting buffer info: " \o ErrorString(r.error)
            ELSE "Error retrieving buffer info",
   isLoaded |-> FALSE, diag |-> IF b = "mcp" THEN ErrorString(r.error) ELSE ""]

NoPosition == [row |-> 0, col |-> 0, width |-> 0, height |-> 0]

\* window w of a tab; xn, xp: the arrangement when its number and when its
\* position were asked for
TabWindowEntry(b, w, xn, xp) ==
  [number |-> Num(EdWinNumber(Arranged(w, xn))), bufferNumber |-> Num(EdWinBuffer(w)),
   bufferName |-> IF EdBufName(EdWinBuffer(w)) = ""
                    THEN (IF b = "mcp" THEN "[No Name]" ELSE "Unnamed")
                    ELSE EdBufName(EdWinBuffer(w)),
   isModified |-> b \in {"index", "actions_layout"} /\ EdBufModified(EdWinBuffer(w)),
   hasPosition |-> b \in {"index", "actions_layout"},
   position |-> IF b \in {"index", "actions_layout"} THEN EdWinPosition(Arranged(w, xp))
                ELSE NoPosition,
   diag |-> ""]

\* index.ts 892-899; part_006 339-346; send-normal-mode.ts 217-224; part_007
\* 254-267, which gives the placeholder a position of zeros; rendered is
\* `${winError}`
TabWindowPlaceholder(b, rendered) ==
  [number |-> Str("Error"), bufferNumber |-> Str("Error"),
   bufferName |-> CASE b = "index" -> "Error retrieving window info"
                    [] b = "mcp" -> "Error processing window: " \o rendered
                    [] OTHER -> "Error processing window",
   isModified |-> FALSE, hasPosition |-> b = "actions_layout", position |-> NoPosition,
   diag |-> IF b = "index" THEN "" ELSE rendered]

Range(s) == {s[i] : i \in DOMAIN s}

\* determineWindowLayout (index.ts 420-464). The comparator of the sort reads
\* position.row of both arguments: an entry without position makes it throw.
determineWindowLayout(windows) ==
  IF Len(windows) <= 1
    THEN [throws |-> FALSE, type |-> "single", description |-> "Single window"]
  ELSE IF \E i \in DOMAIN windows : ~windows[i].hasPosition
    THEN [throws |-> TRUE, type |-> "",
          description |-> "TypeError: Cannot read properties of undefined (reading 'row')"]
  ELSE LET uniqueRows == Cardinality({windows[i].position.row : i \in DOMAIN windows})
           uniqueCols == Cardinality({windows[i].position.col : i \in DOMAIN windows})
       IN  IF uniqueRows = 1 /\ uniqueCols > 1
             THEN [throws |-> FALSE, type |-> "horizontal",
                   description |-> "windows with horizontal splits (side by side)"]
           ELSE IF uniqueRows > 1 /\ uniqueCols = 1
             THEN [throws |-> FALSE, type |-> "vertical",
                   description |-> "windows with vertical splits (stacked)"]
           ELSE IF uniqueRows > 1 /\ uniqueCols > 1
             THEN [throws |-> FALSE, type |-> "mixed",
                   description |-> "windows with mixed layout (vertical and horizontal splits)"]
           ELSE [throws |-> FALSE, type |-> "complex",
                 description |-> "windows with complex layout"]

\* index.ts 902-917; part_007 270-285, whose determineWindowLayout (15-70)
\* leaves out the entries without a position: it is given none, every entry
\* pushed by part_007 has one
TabLayout(b, windows) ==
  IF b \notin {"index", "actions_layout"}
    THEN [throws |-> FALSE, type |-> "none", description |-> ""]
  ELSE IF Len(windows) > 1 THEN determineWindowLayout(windows)
  ELSE IF Len(windows) = 1
    THEN [throws |-> FALSE, type |-> "single", description |-> "Single window"]
  ELSE [throws |-> FALSE, type |-> "empty", description |-> "No windows"]

\* index.ts 927-934; part_006 358-365; send-normal-mode.ts 232-239; part_007
\* 296-303: the entry of a tab whose processing threw; rendered is
\* `${tabError}`
ErrorTab(b, rendered) ==
  [number |-> Str("Error"), isCurrent |-> FALSE, windows |-> <<>>,
   layout |-> [type |-> "none", description |-> ""],
   error |-> (IF b = "mcp" THEN "Error processing tab: "
              ELSE "Error retrieving tab info: ") \o rendered]

\* index.ts 919-935: the entry of tab t once its windows are collected
TabEntry(b, t, windows) ==
  LET l == TabLayout(b, windows) IN
    IF l.throws
      THEN ErrorTab(b, l.description)
      ELSE [number |-> Num(t), isCurrent |-> t = EdCurrentTab, windows |-> windows,
            layout |-> [type |-> l.type, description |-> l.description], error |-> ""]

Max(a, b) == IF a >= b THEN a ELSE b
Min(a, b) == IF a <= b THEN a ELSE b

\* index.ts 1037-1040
startLineOf(cursor) == Max(0, (cursor[1] - 1) - contextLines)
endLineOf(cursor, lineCount) == Min(lineCount, (cursor[1] - 1) + contextLines + 1)

NoRange == [startLine |-> 0, endLine |-> 0, context |-> 0]

\* index.ts 1094-1108; part_006 498-512: the entry pushed for a window whose
\* calls all answered
WindowSnapshot(windowNumber, isCurrentWindow, bufferNumber, bufferName, cursor, lineCount, content, diag) ==
  [placeholder |-> FALSE,
   windowNumber |-> Num(windowNumber),
   isCurrentWindow |-> isCurrentWindow,
   isActiveBuffer |-> isCurrentWindow,
   bufferNumber |-> Num(bufferNumber),
   bufferName |-> IF bufferName = "" THEN "Unnamed" ELSE bufferName,
   cursor |-> cursor,
   hasTotalLines |-> TRUE,
   totalLines |-> lineCount,
   hasRange |-> TRUE,
   visibleRange |-> [startLine |-> startLineOf(cursor) + 1,
                     endLine |-> endLineOf(cursor, lineCount),
                     context |-> contextLines],
   content |-> content, diag |-> diag]

\* the entry of window w of the editor, whose number and whose comparison
\* with the current window's number were taken by the head calls. content:
\* "lines" when a line fetch answered, "diag" when the primary call and the
\* fallback both failed.
WindowEntry(w, windowNumber, isCurrentWindow, content, diag) ==
  WindowSnapshot(windowNumber, isCurrentWindow,
                 EdWinBuffer(w), EdBufName(EdWinBuffer(w)), EdWinCursor(w),
                 EdBufLength(EdWinBuffer(w)), content, diag)

\* index.ts 1110-1117; part_006 514-528; view-buffers.ts 200-209
WindowPlaceholder(b, r) ==
  [placeholder |-> TRUE,
   windowNumber |-> Str("Error"),
   isCurrentWindow |-> FALSE,
   isActiveBuffer |-> FALSE,
   bufferNumber |-> Str("Error"),
   bufferName |-> IF b = "mcp" THEN "Error processing window: " \o ErrorString(r.error)
                  ELSE "Error processing window",
   cursor |-> <<0, 0>>,
   hasTotalLines |-> b = "mcp",
   totalLines |-> 0,
   hasRange |-> b = "mcp",
   visibleRange |-> NoRange,
   content |-> "diag", diag |-> "Error processing window: " \o ErrorString(r.error)]

\* index.ts 964-971; part_006 395-409: window.buffer resolved to nothing
UndefinedBufferSnapshot(b, windowNumber, isCurrentWindow) ==
  [placeholder |-> TRUE,
   windowNumber |-> Num(windowNumber),
   isCurrentWindow |-> isCurrentWindow,
   isActiveBuffer |-> b = "mcp" /\ isCurrentWindow,
   bufferNumber |-> Str("Unknown"),
   bufferName |-> "Buffer is undefined",
   cursor |-> <<0, 0>>,
   hasTotalLines |-> b = "mcp",
   totalLines |-> 0,
   hasRange |-> b = "mcp",
   visibleRange |-> NoRange,
   content |-> "diag", diag |-> "Error: Buffer object is undefined"]

\* window w read in one arrangement x, the current window fetched in cw
UndefinedBufferEntry(b, w, x, cw) ==
  UndefinedBufferSnapshot(b, EdWinNumber(Arranged(w, x)),
                          EdWinNumber(Arranged(Arranged(EdCurrentWindow, cw), x))
                            = EdWinNumber(Arranged(w, x)))

\* index.ts 1165-1169; part_006 570-574: Array.prototype.sort (stable) with
\* an entry whose number is not a number compared as -1
SortKey(e) == IF e.number.isNum THEN e.number.n ELSE 0 - 1

RECURSIVE InsertSorted(_, _)
InsertSorted(s, e) ==
  IF s = <<>> THEN <<e>>
  ELSE IF SortKey(e) < SortKey(Head(s)) THEN <<e>> \o s
  ELSE <<Head(s)>> \o InsertSorted(Tail(s), e)

\* (variant) a sort that loses the entries it cannot order
SortDroppingPlaceholders(s) == SelectSeq(s, LAMBDA e : e.number.isNum)

RECURSIVE SortBuffers(_)
SortBuffers(s) ==
  IF s = <<>> THEN <<>>
  ELSE InsertSorted(SortBuffers(SubSeq(s, 1, Len(s) - 1)), s[Len(s)])

\* the response of a read that ran to its end. index.ts 1121-1227 sorts the
\* buffer list and renders the three sections; part_006 653-676 serialises the
\* resource and then renders the text, which sorts the buffer list;
\* view-buffers.ts 213-253 renders the blocks of the windows and nothing else;
\* send-normal-mode.ts 425-492 and part_007 489-587 render the three sections
\* under headings of their own and do not sort the buffer list.
ReadResponse(b, tabs, buffers, windows) ==
  [kind |-> "result", isError |-> FALSE,
   text |-> CASE b \in {"index", "mcp"} ->
                   <<"## OPEN TABS SUMMARY", "## ALL OPEN BUFFERS",
                     "## BUFFERS VISIBLE IN CURRENT TAB">>
              [] b = "actions" ->
                   IF windows = <<>> THEN <<"No visible buffers found">> ELSE <<>>
              [] OTHER ->
                   <<"===== TABS =====", "===== ALL BUFFERS =====",
                     "===== VISIBLE WINDOWS IN CURRENT TAB =====">>
                   \o (IF windows = <<>> THEN <<"No visible buffers found">> ELSE <<>>),
   report |-> [tabs |-> tabs,
               buffers |-> IF b \in {"index", "mcp"} THEN SortBuffers(buffers) ELSE buffers,
               windows |-> windows],
   json |-> IF b = "mcp"
              THEN [tabs |-> tabs, buffers |-> buffers, windows |-> windows]
              ELSE NoReport]

(* read_state steps *)
Account(n, c, r) ==
  /\ calls' = calls + UnitIssued(n, c)
  /\ waited' = waited + r.waited
  /\ faults' = faults + FaultCost(c.o) + (IF c.chg = "exchange" THEN 1 ELSE 0)
  /\ remote' = IF c.chg \in {"down", "hung"} THEN c.chg ELSE remote
  /\ sessionOk' = IF c.chg = "down" THEN FALSE ELSE sessionOk
  /\ monitor' = IF c.chg = "down"
                   THEN [monitor EXCEPT !.subscribed = FALSE, !.live = FALSE] ELSE monitor
  /\ exchanged' = ExchangedAt(c, n)

\* the calls before the loops: a failure is caught by the outer handler.
\* index.ts, send-normal-mode.ts 79 and part_007 fetch the windows of the
\* current tab with their call 4 and the current window with call 5; part_006
\* and view-buffers.ts the windows with call 1 and the current window with
\* call 2. view-buffers.ts has no buffer loop and no tab loop.
ViewPreamble ==
  /\ pc = "vb_pre"
  /\ \E c \in UnitChoices(Len(PreambleCalls(build))) :
       LET r == UnitResult(PreambleCalls(build), c) IN
         /\ r.settled
         /\ Account(Len(PreambleCalls(build)), c, r)
         /\ IF c.k = 0
              THEN /\ pc' = (IF build = "actions" THEN "vb_win" ELSE "vb_buf")
                   /\ idx' = [i |-> 1, j |-> 0]
                   /\ seen' = [current |-> ExchangedAt(c, IF build \in {"mcp", "actions"}
                                                            THEN 2 ELSE 5),
                               shown |-> ExchangedAt(c, IF build \in {"mcp", "actions"}
                                                          THEN 1 ELSE 4),
                               tab |-> FALSE]
                   /\ UNCHANGED <<resp, allBuffersInfo, tabsInfo, windowsInfo, result, cur>>
              ELSE Respond(ReadFailure(build, r))
  /\ UNCHANGED <<sockExists, sent, progVars, req, served, log, last, race, win, peer>>

\* one iteration of the buffer loop
ViewBuffer ==
  /\ pc = "vb_buf"
  /\ \E c \in UnitChoices(Len(BufferCalls)) :
       LET r == UnitResult(BufferCalls, c) IN
         /\ r.settled
         /\ Account(Len(BufferCalls), c, r)
         /\ allBuffersInfo' =
              Append(allBuffersInfo,
                     IF c.k = 0 THEN BufferEntry(build, EdBuffers[idx.i])
                     ELSE BufferPlaceholder(build, r))
  /\ IF idx.i < NumBuffers
       THEN pc' = "vb_buf" /\ idx' = [i |-> idx.i + 1, j |-> 0]
       ELSE pc' = "vb_tab" /\ idx' = [i |-> 1, j |-> 0]
  /\ UNCHANGED <<sockExists, sent, progVars, req, served, log, resp, tabsInfo, windowsInfo,
                 result, cur, seen, last, race, win, peer>>

\* the tab after tab idx.i, or the window loop
AfterTab ==
  IF idx.i < NumTabs
    THEN pc' = "vb_tab" /\ idx' = [i |-> idx.i + 1, j |-> 0]
    ELSE pc' = "vb_win" /\ idx' = [i |-> 1, j |-> 0]

\* the calls of a tab made before its windows are walked; the last of them
\* fetches the tab's windows
ViewTabHead ==
  /\ pc = "vb_tab"
  /\ \E c \in UnitChoices(Len(TabHeadCalls(build))) :
       LET r == UnitResult(TabHeadCalls(build), c) IN
         /\ r.settled
         /\ Account(Len(TabHeadCalls(build)), c, r)
         /\ IF c.k = 0
              THEN /\ pc' = "vb_tabwin"
                   /\ idx' = [i |-> idx.i, j |-> 1]
                   /\ seen' = [seen EXCEPT !.tab = ExchangedAt(c, Len(TabHeadCalls(build)))]
                   /\ UNCHANGED tabsInfo
              ELSE /\ tabsInfo' = Append(tabsInfo, ErrorTab(build, ErrorString(r.error)))
                   /\ AfterTab
                   /\ UNCHANGED seen
  /\ windowsInfo' = <<>>
  /\ UNCHANGED <<sockExists, sent, progVars, req, served, log, resp, allBuffersInfo,
                 result, cur, last, race, win, peer>>

\* the entry e of window idx.j of tab idx.i is pushed; after the last window
\* the tab's entry is built
AfterTabWindow(e) ==
  LET t == EdTabs[idx.i]
      ws == Append(windowsInfo, e)
  IN  IF idx.j < Len(EdTabWindows(t))
        THEN /\ windowsInfo' = ws
             /\ pc' = "vb_tabwin"
             /\ idx' = [i |-> idx.i, j |-> idx.j + 1]
             /\ UNCHANGED tabsInfo
        ELSE /\ windowsInfo' = <<>>
             /\ tabsInfo' = Append(tabsInfo, TabEntry(build, t, ws))
             /\ AfterTab

\* one window of a tab. index.ts asks for the window's number with call 1
\* and for its position with call 6.
ViewTabWindow ==
  /\ pc = "vb_tabwin"
  /\ \E c \in UnitChoices(Len(TabWinCalls(build))) :
       LET r == UnitResult(TabWinCalls(build), c)
           w == Arranged(EdTabWindows(EdTabs[idx.i])[idx.j], seen.tab)
       IN
         /\ r.settled
         /\ Account(Len(TabWinCalls(build)), c, r)
         /\ AfterTabWindow(IF c.k = 0
                             THEN TabWindowEntry(build, w, ExchangedAt(c, 1),
                                                 ExchangedAt(c, 6))
                             ELSE TabWindowPlaceholder(build, ErrorString(r.error)))
  /\ UNCHANGED <<sockExists, sent, progVars, req, served, log, resp, allBuffersInfo,
                 result, cur, seen, last, race, win, peer>>

\* win.buffer answers with no buffer once two calls have resolved. index.ts
\* 836-846; part_006 322-332: reading the number of it throws a TypeError.
\* send-normal-mode.ts 191-198 and part_007 189-202 test it and push an entry
\* that keeps the number of the window.
ViewTabWindowNoBuffer ==
  /\ pc = "vb_tabwin"
  /\ sessionOk /\ remote = "up" /\ faults < MaxFaults
  /\ calls' = calls + 2
  /\ faults' = faults + 1
  /\ AfterTabWindow(
       IF build \in {"index", "mcp"}
         THEN TabWindowPlaceholder(build,
                "TypeError: Cannot read properties of undefined (reading 'number')")
         ELSE [number |-> Num(EdWinNumber(Arranged(
                            Arranged(EdTabWindows(EdTabs[idx.i])[idx.j], seen.tab), exchanged))),
               bufferNumber |-> Str("Unknown"), bufferName |-> "Buffer is undefined",
               isModified |-> FALSE, hasPosition |-> build = "actions_layout",
               position |-> NoPosition, diag |-> ""])
  /\ UNCHANGED <<envVars, progVars, req, served, log, waited, resp, allBuffersInfo,
                 result, cur, seen, last, race, monitor, win, peer>>

\* the window after window idx.i, or the report
AfterWindow(res) ==
  IF idx.i < Len(WindowsShown(build))
    THEN /\ result' = res
         /\ pc' = "vb_win"
         /\ idx' = [i |-> idx.i + 1, j |-> 0]
         /\ cur' = NoCur
         /\ UNCHANGED <<resp, allBuffersInfo, tabsInfo, windowsInfo, seen>>
    ELSE Respond(ReadResponse(build, tabsInfo, allBuffersInfo, res))

\* the calls of a window made before its lines are fetched: call 1 asks for
\* the window's number, call 2 for the number of the current window
ViewWindowHead ==
  /\ pc = "vb_win"
  /\ \E c \in UnitChoices(Len(WinHeadCalls)) :
       LET r == UnitResult(WinHeadCalls, c)
           w == Arranged(WindowsShown(build)[idx.i], seen.shown)
           windowNumber == EdWinNumber(Arranged(w, ExchangedAt(c, 1)))
           currentWindowNumber ==
             EdWinNumber(Arranged(Arranged(EdCurrentWindow, seen.current), ExchangedAt(c, 2)))
       IN
         /\ r.settled
         /\ Account(Len(WinHeadCalls), c, r)
         /\ IF c.k = 0
              THEN /\ pc' = (IF build = "mcp" THEN "vb_section" ELSE "vb_full")
                   /\ cur' = [w |-> w, full |-> "none", number |-> windowNumber,
                              isCurrentWindow |-> windowNumber = currentWindowNumber]
                   /\ UNCHANGED <<resp, idx, allBuffersInfo, tabsInfo, windowsInfo, result, seen>>
              ELSE AfterWindow(Append(result, WindowPlaceholder(build, r)))
  /\ UNCHANGED <<sockExists, sent, progVars, req, served, log, last, race, win, peer>>

\* window.buffer answers with no buffer: the three calls resolved
ViewWindowNoBuffer ==
  /\ pc = "vb_win"
  /\ sessionOk /\ remote = "up" /\ faults < MaxFaults
  /\ calls' = calls + 3
  /\ faults' = faults + 1
  /\ AfterWindow(Append(result,
       UndefinedBufferEntry(build, Arranged(WindowsShown(build)[idx.i], seen.shown),
                            exchanged, seen.current)))
  /\ UNCHANGED <<envVars, progVars, req, served, log, waited, last, race, monitor, win, peer>>

\* a line fetch: the structured call o1, and the raw request o2 when o1 failed
FetchChoices ==
  {f \in [o1 : CallOutcomes, o2 : {"ok", "err", "err_timeout", "never", "unused"}] :
     IF f.o1 = "ok" THEN f.o2 = "unused"
     ELSE f.o2 \in CallOutcomesAt(faults + FaultCost(f.o1))}

FetchResult(f, primaryMsg) ==
  LET r1 == withTimeout(f.o1, NVIM_RPC_TIMEOUT_MS, primaryMsg)
      r2 == withTimeout(IF f.o2 = "unused" THEN "ok" ELSE f.o2, NVIM_RPC_TIMEOUT_MS,
                        "Timeout making direct nvim_buf_get_lines request")
  IN [settled |-> r1.settled /\ (r1.ok \/ r2.settled),
      ok |-> r1.ok \/ r2.ok,
      fallback |-> ~r1.ok,
      error |-> IF r1.ok \/ r2.ok THEN "" ELSE r2.error,
      diag |-> IF r1.ok \/ r2.ok THEN ""
               ELSE "Error getting buffer content: " \o ErrorString(r2.error),
      issued |-> IF r1.ok THEN 1 ELSE 2,
      waited |-> r1.waited + (IF r1.ok THEN 0 ELSE r2.waited),
      cost |-> FaultCost(f.o1) + (IF f.o2 = "unused" THEN 0 ELSE FaultCost(f.o2))]

\* index.ts 1002-1034; view-buffers.ts 93-127: the whole buffer is fetched
\* (and not used afterwards)
ViewFullContent ==
  /\ pc = "vb_full"
  /\ \E f \in FetchChoices :
       LET r == FetchResult(f, "Timeout getting buffer lines") IN
         /\ r.settled
         /\ calls' = calls + r.issued
         /\ waited' = waited + r.waited
         /\ faults' = faults + r.cost
         /\ cur' = [cur EXCEPT !.full = IF r.ok THEN "lines" ELSE "diag"]
  /\ pc' = "vb_section"
  /\ UNCHANGED <<envVars, progVars, req, served, log, resp, idx, allBuffersInfo,
                 tabsInfo, windowsInfo, result, seen, last, race, monitor, win, peer>>

\* index.ts 1036-1108; part_006 440-512: the lines around the cursor, then
\* the entry of the window
ViewSection ==
  /\ pc = "vb_section"
  /\ \E f \in FetchChoices :
       LET r == FetchResult(f, "Timeout getting buffer lines section") IN
         /\ r.settled
         /\ calls' = calls + r.issued
         /\ waited' = waited + r.waited
         /\ faults' = faults + r.cost
         /\ AfterWindow(Append(result,
                               WindowEntry(cur.w, cur.number, cur.isCurrentWindow,
                                           IF r.ok THEN "lines" ELSE "diag", r.diag)))
  /\ UNCHANGED <<envVars, progVars, req, served, log, last, race, monitor, win, peer>>

(* ----------- the connection utilities called directly ----------------- *)
\* src/src/utils/neovim-connection.ts exports its functions: any caller may
\* call them in any order and in any state of the handle.
ApiConnect ==
  /\ pc = "api"
  /\ \E a \in AttachOutcomes(remote) :
       LET c == connectToNeovim(nvim, sockExists, a) IN
         /\ nvim' = c.nvim
         /\ sessionOk' = SessionAfter(c, sessionOk)
         \* a connect that stays at its await of attach returns nothing
         /\ pc' = (IF c.hangs THEN "attaching" ELSE pc)
         /\ last' = IF c.hangs THEN last ELSE
                    [op |-> "connect", sock |-> sockExists, ret |-> c.ret, before |-> nvim,
                     attached |-> c.attached,
                     waited |-> IF c.attached /\ a = "timeout"
                                  THEN NVIM_CONNECTION_TIMEOUT_MS ELSE 0,
                     threw |-> c.threw, outcome |-> a,
                     env |-> <<remote, SessionAfter(c, sessionOk)>>,
                     prev |-> last.op, prevRet |-> last.ret,
                     quiet |-> last.env = <<remote, sessionOk>>]
  /\ UNCHANGED <<sockExists, remote, sent, build, notifications, req, served, log, calls,
                 waited, faults, resp, readVars, race, monitor, win, peer, exchanged>>

ApiIsAlive ==
  /\ pc = "api"
  /\ \E p \in ProbeOutcomes(remote, sessionOk) :
       LET a == isNeovimAlive(nvim, p) IN
         /\ a.settled
         /\ nvim' = a.nvim
         /\ last' = [op |-> "isAlive", sock |-> sockExists, ret |-> a.ret, before |-> nvim,
                     attached |-> a.probed, waited |-> a.waited,
                     threw |-> a.threw, outcome |-> p,
                     env |-> <<remote, sessionOk>>,
                     prev |-> last.op, prevRet |-> last.ret,
                     quiet |-> last.env = <<remote, sessionOk>>]
  /\ UNCHANGED <<envVars, build, notifications, reqVars, readVars, race, monitor, win, peer>>

ApiReset ==
  /\ pc = "api"
  /\ nvim' = resetNvimConnection(nvim)
  /\ sessionOk' = FALSE
  /\ last' = [op |-> "reset", sock |-> sockExists, ret |-> FALSE, before |-> nvim,
              attached |-> FALSE, waited |-> 0, threw |-> FALSE, outcome |-> "none",
              env |-> <<remote, FALSE>>,
              prev |-> last.op, prevRet |-> last.ret,
              quiet |-> last.env = <<remote, sessionOk>>]
  /\ UNCHANGED <<sockExists, remote, sent, build, notifications, reqVars, readVars, race, monitor, win, peer, exchanged>>

(* -------------- the exported actions called directly ------------------ *)
\* src/src/actions: the exported functions take the handle from getNvim()
\* and make no connection check; invalid arguments are thrown (an argument
\* object without the field: the text is that of the ZodError, the issues
\* as indented JSON), and a call on a missing handle is a TypeError caught by
\* the function's own handler, which names undefined before the first
\* successful connect and null after a reset. The timeout text of these
\* functions does not name the socket path.
ActionFailure(r, failed, other, arg) ==
  IF IncludesTimeout(r.error)
    THEN ErrorResult(<<"Error: ", "Neovim RPC operation timed out after 2000ms.",
                       "The Neovim process may have been closed or become unresponsive.",
                       failed, arg, "Please check if Neovim is still running and listening.">>)
    ELSE ErrorResult(<<other, ErrorString(r.error)>>)

\* send-normal-mode.ts 15-63
sendNormalMode ==
  /\ pc = "api"
  /\ served < MaxRequests
  /\ served' = served + 1
  /\ \E a \in [argsOk : BOOLEAN, arg : Keys] :
       IF ~a.argsOk
         THEN /\ resp' = Thrown(<<"Invalid arguments for send_normal_mode: ",
                    "[\n  {\n    \"code\": \"invalid_type\",\n    \"expected\": \"string\",\n    \"received\": \"undefined\",\n    \"path\": [\n      \"keys\"\n    ],\n    \"message\": \"Required\"\n  }\n]">>)
              /\ UNCHANGED <<sent, calls, waited>>
         ELSE IF ~isNeovimConnected(getNvim(nvim))
           THEN /\ resp' = ErrorResult(<<"Error sending normal mode keystrokes: ",
                    IF getNvim(nvim) = Undefined
                      THEN "TypeError: Cannot read properties of undefined (reading 'command')"
                      ELSE "TypeError: Cannot read properties of null (reading 'command')">>)
                /\ UNCHANGED <<sent, calls, waited>>
           ELSE \E o \in CallOutcomesAt(0) :
                  LET r == withTimeout(o, NVIM_RPC_TIMEOUT_MS,
                                       "Timeout sending normal mode command: " \o a.arg) IN
                    /\ calls' = calls + 1
                    /\ waited' = waited + r.waited
                    /\ sent' = IF sessionOk
                                 THEN IssueCall(sent, [method |-> "command", prefix |-> "normal! ",
                                                       arg |-> a.arg, ok |-> r.ok])
                                 ELSE sent
                    /\ resp' = IF r.ok
                                 THEN Result(<<"Successfully sent normal mode keystrokes: ", a.arg>>)
                                 ELSE ActionFailure(r, "Failed to send normal mode keystrokes: ",
                                                    "Error sending normal mode keystrokes: ", a.arg)
  /\ UNCHANGED <<sockExists, remote, sessionOk, progVars, pc, req, log, faults, readVars,
                 last, race, monitor, win, peer, exchanged>>

\* send-command-mode.ts 15-64
sendCommandMode ==
  /\ pc = "api"
  /\ served < MaxRequests
  /\ served' = served + 1
  /\ \E a \in [argsOk : BOOLEAN, arg : Commands] :
       IF ~a.argsOk
         THEN /\ resp' = Thrown(<<"Invalid arguments for send_command_mode: ",
                    "[\n  {\n    \"code\": \"invalid_type\",\n    \"expected\": \"string\",\n    \"received\": \"undefined\",\n    \"path\": [\n      \"command\"\n    ],\n    \"message\": \"Required\"\n  }\n]">>)
              /\ UNCHANGED <<sent, calls, waited>>
         ELSE IF ~isNeovimConnected(getNvim(nvim))
           THEN /\ resp' = ErrorResult(<<"Error executing command: ",
                    IF getNvim(nvim) = Undefined
                      THEN "TypeError: Cannot read properties of undefined (reading 'commandOutput')"
                      ELSE "TypeError: Cannot read properties of null (reading 'commandOutput')">>)
                /\ UNCHANGED <<sent, calls, waited>>
           ELSE \E o \in CallOutcomesAt(0) :
                  LET r == withTimeout(o, NVIM_RPC_TIMEOUT_MS,
                                       "Timeout executing command: " \o a.arg) IN
                    /\ calls' = calls + 1
                    /\ waited' = waited + r.waited
                    /\ sent' = IF sessionOk
                                 THEN IssueCall(sent, [method |-> "commandOutput", prefix |-> "",
                                                       arg |-> a.arg, ok |-> r.ok])
                                 ELSE sent
                    /\ resp' = IF r.ok
                                 THEN Result(<<"Command: ", a.arg, "Output:">>)
                                 ELSE ActionFailure(r, "Failed to execute command: ",
                                                    "Error executing command: ", a.arg)
  /\ UNCHANGED <<sockExists, remote, sessionOk, progVars, pc, req, log, faults, readVars,
                 last, race, monitor, win, peer, exchanged>>

\* the exported viewBuffers() of view-buffers.ts 14-279, of
\* send-normal-mode.ts 79-518 and of part_007 77-613: each takes the handle
\* from getNvim() and reads a property of it, windows in view-buffers.ts and
\* tabpage in the other two: a missing handle is a TypeError caught by the
\* outer handler; the calls that follow are the steps of the read
viewBuffers ==
  /\ pc = "api"
  /\ served < MaxRequests
  /\ served' = served + 1
  /\ calls' = 0
  /\ waited' = 0
  /\ faults' = 0
  /\ \E b \in {"actions", "actions_tabs", "actions_layout"} :
       \* build: the version whose read is running
       /\ build' = (IF isNeovimConnected(getNvim(nvim)) THEN b ELSE build)
       /\ IF ~isNeovimConnected(getNvim(nvim))
            THEN /\ resp' = ErrorResult(<<"Error in view_buffers: ",
                      "TypeError: Cannot read properties of "
                        \o (IF getNvim(nvim) = Undefined THEN "undefined" ELSE "null")
                        \o (IF b = "actions" THEN " (reading 'windows')"
                            ELSE " (reading 'tabpage')")>>)
                 /\ pc' = pc
            ELSE /\ resp' = NoResp
                 /\ pc' = "vb_pre"
  \* the read is no call of a connection utility
  /\ last' = [NoLast EXCEPT !.op = "viewBuffers"]
  /\ UNCHANGED <<envVars, nvim, notifications, req, log, readVars, race, monitor, win, peer>>

(* --------------------------- specifications --------------------------- *)
Handler ==
  \/ CheckConnect
  \/ CheckAlive
  \/ CheckHandleOnly
  \/ Reconnect
  \/ Dispatch
  \/ SendNormalMode
  \/ NotifyChanged
  \/ SendCommandMode
  \/ ViewPreamble
  \/ ViewBuffer
  \/ ViewTabHead
  \/ ViewTabWindow
  \/ ViewTabWindowNoBuffer
  \/ ViewWindowHead
  \/ ViewWindowNoBuffer
  \/ ViewFullContent
  \/ ViewSection

\* the requests of a run; the setup of the change monitoring that part_006
\* starts in runServer proceeds beside them (NextMon) and writes nothing a
\* request handler reads
Next ==
  \/ RunServer
  \/ Receive
  \/ Handler
  \/ RemoteChange
  \/ WindowExchange
  \/ SocketChange

Spec == Init /\ [][Next]_vars

\* the event loop runs a handler whose awaited call has settled, and timers fire
SpecLive == Init /\ [][Next]_vars /\ WF_vars(Handler)

\* a run with the change monitoring of part_006: the continuations of
\* runServer after server.connect and the editor's reports interleave with
\* the requests (index.ts sets up no monitoring: its monitor stays "off")
NextMon ==
  \/ Next
  \/ SetupMonitor
  \/ EditorSubscribed
  \/ EditorReports

SpecMon == Init /\ [][NextMon]_vars

InitCM ==
  /\ sockExists \in BOOLEAN
  /\ remote \in {"up", "down", "hung"}
  /\ sessionOk = FALSE
  /\ sent = <<>>
  /\ exchanged = FALSE
  /\ build = "actions"
  /\ nvim = Undefined
  /\ notifications = 0
  /\ pc = "api"
  /\ req = NoReq
  /\ served = 0
  /\ log = <<>>
  /\ calls = 0
  /\ waited = 0
  /\ faults = 0
  /\ resp = NoResp
  /\ idx = NoIdx
  /\ allBuffersInfo = <<>>
  /\ tabsInfo = <<>>
  /\ windowsInfo = <<>>
  /\ result = <<>>
  /\ cur = NoCur
  /\ seen = NoSeen
  /\ last = NoLast
  /\ race = NoRace
  /\ monitor = NoMonitor
  /\ win = NoWin
  /\ peer = "none"

NextCM ==
  \/ ApiConnect
  \/ ApiIsAlive
  \/ ApiReset
  \/ sendNormalMode
  \/ sendCommandMode
  \/ viewBuffers
  \/ ViewPreamble
  \/ ViewBuffer
  \/ ViewTabHead
  \/ ViewTabWindow
  \/ ViewTabWindowNoBuffer
  \/ ViewWindowHead
  \/ ViewWindowNoBuffer
  \/ ViewFullContent
  \/ ViewSection
  \/ RemoteChange
  \/ WindowExchange
  \/ SocketChange

SpecCM == InitCM /\ [][NextCM]_vars

(* ------------------ Timeout Guard, event by event --------------------- *)
\* One call of withTimeout: the operation's promise and the timer's promise
\* are raced (Promise.race). The timer is never cleared, so it fires whether or
\* not the operation has settled; an operation that settles late still settles.

\* (variant) a later settlement replaces the outcome
SettleOverwriting(p, s) == s

\* a promise takes the first settlement and ignores every later one
SettleOnce(p, s) == IF p.state = "pending" THEN s ELSE p

\* the settlement the operation's promise brings
OpSettlement(o) ==
  IF o = "ok" THEN [state |-> "fulfilled", value |-> "result"]
  ELSE [state |-> "rejected", value |-> RemoteError]

\* the settlement the timer brings: reject(new Error(errorMessage))
TimerSettlement(errorMessage) == [state |-> "rejected", value |-> errorMessage]

RaceMessages == TimeoutMessages \cup {"Operation timed out"}

RaceInputs ==
  {r \in [op : {"ok", "err", "never"}, first : {"op", "timer"},
          timeoutMs : {NVIM_API_TIMEOUT_MS, NVIM_RPC_TIMEOUT_MS},
          errorMessage : RaceMessages] :
     r.op = "never" => r.first = "timer"}

InitWT ==
  /\ sockExists = TRUE
  /\ remote = "up"
  /\ sessionOk = FALSE
  /\ sent = <<>>
  /\ exchanged = FALSE
  /\ build = "index"
  /\ nvim = Undefined
  /\ notifications = 0
  /\ pc = "race"
  /\ req = NoReq
  /\ served = 0
  /\ log = <<>>
  /\ calls = 0
  /\ waited = 0
  /\ faults = 0
  /\ resp = NoResp
  /\ idx = NoIdx
  /\ allBuffersInfo = <<>>
  /\ tabsInfo = <<>>
  /\ windowsInfo = <<>>
  /\ result = <<>>
  /\ cur = NoCur
  /\ seen = NoSeen
  /\ last = NoLast
  /\ monitor = NoMonitor
  /\ win = NoWin
  /\ peer = "none"
  /\ \E r \in RaceInputs :
       race = [phase |-> "racing", op |-> r.op, first |-> r.first,
               timeoutMs |-> r.timeoutMs, errorMessage |-> r.errorMessage,
               promise |-> [state |-> "pending", value |-> ""],
               opDone |-> FALSE, timerDone |-> FALSE, settlements |-> 0]

\* the operation's promise settles
WtOpSettles ==
  /\ pc = "race"
  /\ ~race.opDone
  /\ race.op # "never"
  /\ race.first = "op" \/ race.timerDone
  /\ LET p == SettleOnce(race.promise, OpSettlement(race.op)) IN
       race' = [race EXCEPT !.promise = p, !.opDone = TRUE,
                            !.settlements = @ + (IF p # race.promise THEN 1 ELSE 0)]
  /\ UNCHANGED <<envVars, progVars, reqVars, readVars, last, monitor, win, peer>>

\* setTimeout's callback runs after timeoutMs
WtTimerFires ==
  /\ pc = "race"
  /\ ~race.timerDone
  /\ race.first = "timer" \/ race.opDone
  /\ LET p == SettleOnce(race.promise, TimerSettlement(race.errorMessage)) IN
       race' = [race EXCEPT !.promise = p, !.timerDone = TRUE,
                            !.settlements = @ + (IF p # race.promise THEN 1 ELSE 0)]
  /\ UNCHANGED <<envVars, progVars, reqVars, readVars, last, monitor, win, peer>>

NextWT ==
  \/ WtOpSettles
  \/ WtTimerFires

SpecWT == InitWT /\ [][NextWT]_vars

(* --------------- one window of read_state, call by call ---------------- *)
\* The calls made for one window (index.ts 942-1118, part_006 373-530) against
\* an editor whose buffer may change between two calls. A line is a sequence
\* of character codes; the line count the editor answers, the cursor and the
\* identity of the window are drawn from the sets below.
MaxCol == 2
MaxEdits == 1
LineCounts == {0, 1, 3, 150, 250}
CursorLines == {1, 2, 3, 101, 102, 150, 250}

\* cursorEmoji, one character of the rendered line
Marker == 0

\* the text of buffer line i (1-based): lines of length 0, 1 and 2
EdLineText(i) == [k \in 1..(i % (MaxCol + 1)) |-> 10 * i + k]

\* nvim_buf_get_lines(buffer, start, end, strict_indexing = false) on a buffer
\* of n lines: zero-based, end exclusive, a negative index counts from the
\* end (-1 is the position after the last line), out-of-range indices are
\* clamped
GetLines(n, start, end) ==
  LET norm(i) == IF i < 0 THEN Max(0, n + 1 + i) ELSE Min(i, n)
      st == norm(start)
      en == norm(end)
  IN [i \in 1..Max(0, en - st) |-> EdLineText(st + i)]

\* String.prototype.substring(from, to) with 0 <= from <= to
Substring(line, from, to) == SubSeq(line, Min(from, Len(line)) + 1, Min(to, Len(line)))

\* index.ts 1080-1082: beforeCursor + cursorEmoji + afterCursor
MarkCursor(line, column) ==
  Substring(line, 0, column) \o <<Marker>> \o Substring(line, column, Len(line))

\* index.ts 1076-1085; part_006 480-489
contentWithCursor(contentSection, startLine, isCurrentWindow, cursor) ==
  [ix \in 1..Len(contentSection) |->
     IF isCurrentWindow /\ startLine + (ix - 1) = cursor[1] - 1
       THEN MarkCursor(contentSection[ix], cursor[2])
       ELSE contentSection[ix]]

\* (variant) lines labelled with their zero-based index
LineNumberZeroBased(startLine, ix) == startLine + (ix - 1)

\* index.ts 1089: lineNumber = startLine + idx + 1, idx counted from 0
LineNumber(startLine, ix) == startLine + (ix - 1) + 1

\* index.ts 1088-1091; part_006 492-495: "<lineNumber>: <line>"
formattedContent(lines, startLine) ==
  [ix \in 1..Len(lines) |->
     [lineNumber |-> LineNumber(startLine, ix), text |-> lines[ix]]]

\* index.ts 1070: the one line put in place of the content when the primary
\* call and the fallback both failed
ErrorLine == <<0 - 1, 0 - 2>>

\* (variant) the raw request is issued whatever the structured call did
FetchCallsBoth(f, fetch, start, end, rawEnd) ==
  <<[fetch |-> fetch, api |-> "getLines", start |-> start, end |-> end, ok |-> f.o1 = "ok"],
    [fetch |-> fetch, api |-> "nvim_buf_get_lines", start |-> start, end |-> rawEnd,
     ok |-> f.o2 \in {"ok", "unused"}]>>

\* the calls of a line fetch (fetch: "full" or "section"): the structured
\* call, then the raw request when the structured call failed (a fallback
\* that fails at buffer.id issues no raw request; its bounds would be these)
FetchCalls(f, fetch, start, end, rawEnd) ==
  <<[fetch |-> fetch, api |-> "getLines", start |-> start, end |-> end, ok |-> f.o1 = "ok"]>>
  \o (IF f.o1 = "ok" THEN <<>>
      ELSE <<[fetch |-> fetch, api |-> "nvim_buf_get_lines", start |-> start,
              end |-> rawEnd, ok |-> f.o2 = "ok"]>>)

WinInputs ==
  {w \in [lines : LineCounts, line : CursorLines, col : 0..MaxCol,
          number : 1..2, focused : BOOLEAN] :
     /\ w.line <= Max(1, w.lines)
     /\ w.col <= (IF w.line <= w.lines THEN Len(EdLineText(w.line)) ELSE 0)}

InitWin ==
  /\ sockExists = TRUE
  /\ remote = "up"
  /\ sessionOk = TRUE
  /\ sent = <<>>
  /\ exchanged = FALSE
  /\ build \in {"index", "mcp"}
  /\ nvim = Handle
  /\ notifications = 0
  /\ pc = "window"
  /\ req = NoReq
  /\ served = 0
  /\ log = <<>>
  /\ calls = 0
  /\ waited = 0
  /\ faults = 0
  /\ resp = NoResp
  /\ idx = NoIdx
  /\ allBuffersInfo = <<>>
  /\ tabsInfo = <<>>
  /\ windowsInfo = <<>>
  /\ result = <<>>
  /\ cur = NoCur
  /\ seen = NoSeen
  /\ last = NoLast
  /\ race = NoRace
  /\ monitor = NoMonitor
  /\ peer = "none"
  /\ \E w \in WinInputs :
       \* the focused window is the one whose number the current window
       \* answers; index.ts walks the windows of the current tab, where numbers
       \* are unique; part_006 walks the windows of every tab, and numbers
       \* start again at 1 in each tab
       /\ w.focused => w.number = EdWinNumber(EdCurrentWindow)
       /\ (build = "index" /\ w.number = EdWinNumber(EdCurrentWindow)) => w.focused
       /\ win = [NoWin EXCEPT !.phase = "head",
                              !.ed = [lines |-> w.lines, cursor |-> <<w.line, w.col>>],
                              !.number = w.number,
                              !.currentNumber = EdWinNumber(EdCurrentWindow),
                              !.focused = w.focused]

\* window.number, currentWindow.number, window.buffer, buffer.name,
\* buffer.number, window.cursor: six timed calls, any of which may be the one
\* that fails, with the text of its own timer; the editor may exit, hang or
\* have its windows exchanged between two of them (an exchange before the
\* second call changes the number the current window answers). In the
\* second disjunct window.buffer resolves to nothing once three calls have
\* answered.
WinHead ==
  /\ pc = "window" /\ win.phase = "head"
  /\ \/ \E c \in UnitChoices(6) :
          LET r == UnitResult(WinHeadCalls, c)
              currentNumber == EdWinNumber(Arranged(EdCurrentWindow, ExchangedAt(c, 2)))
          IN
            /\ r.settled
            /\ remote' = IF c.chg \in {"down", "hung"} THEN c.chg ELSE remote
            /\ sessionOk' = IF c.chg = "down" THEN FALSE ELSE sessionOk
            /\ exchanged' = ExchangedAt(c, 6)
            /\ faults' = faults + (IF c.chg = "same" THEN 0 ELSE 1)
            /\ win' = IF c.k = 0
                        THEN [win EXCEPT !.phase = "length",
                                         !.currentNumber = currentNumber,
                                         !.isCurrentWindow = currentNumber = win.number,
                                         !.cursor = win.ed.cursor]
                        ELSE [win EXCEPT !.phase = "done", !.pushed = @ + 1,
                                         !.entry = WindowPlaceholder(build, r)]
     \/ /\ sessionOk /\ remote = "up"
        /\ win' = [win EXCEPT !.phase = "done", !.pushed = @ + 1,
                              !.currentNumber = EdWinNumber(Arranged(EdCurrentWindow, exchanged)),
                              !.entry = UndefinedBufferSnapshot(build, win.number,
                                          EdWinNumber(Arranged(EdCurrentWindow, exchanged))
                                            = win.number)]
        /\ UNCHANGED <<remote, sessionOk, exchanged, faults>>
  /\ UNCHANGED <<sockExists, sent, progVars, pc, req, served, log, calls, waited, resp,
                 readVars, last, race, monitor, peer>>

\* the user edits the buffer while the window is being read
WinEdit ==
  /\ pc = "window" /\ win.phase \in {"length", "full", "section"}
  /\ win.edits < MaxEdits
  /\ \E n \in LineCounts \ {win.ed.lines} :
       win' = [win EXCEPT !.edits = @ + 1,
                          !.ed = [lines |-> n,
                                  cursor |-> IF win.ed.cursor[1] <= n THEN win.ed.cursor
                                             ELSE <<Max(1, n), 0>>]]
  /\ UNCHANGED <<envVars, progVars, reqVars, readVars, last, race, monitor, peer>>

\* buffer.length
WinLength ==
  /\ pc = "window" /\ win.phase = "length"
  /\ \E o \in CallOutcomes :
       IF o = "ok"
         THEN win' = [win EXCEPT !.phase = IF build = "index" THEN "full" ELSE "section",
                                 !.lineCount = win.ed.lines]
         ELSE win' = [win EXCEPT !.phase = "done", !.pushed = @ + 1,
                                 !.entry = WindowPlaceholder(build,
                                   withTimeout(o, NVIM_RPC_TIMEOUT_MS, WinHeadCalls[7]))]
  /\ UNCHANGED <<envVars, progVars, reqVars, readVars, last, race, monitor, peer>>

\* index.ts 1002-1034: the fetch of the whole buffer
WinFull ==
  /\ pc = "window" /\ win.phase = "full"
  /\ \E f \in FetchChoices :
       /\ FetchResult(f, "Timeout getting buffer lines").settled
       /\ win' = [win EXCEPT !.phase = "section",
                             !.issued = @ \o FetchCalls(f, "full", 0, win.lineCount,
                                                Max(1, win.lineCount))]
  /\ UNCHANGED <<envVars, progVars, reqVars, readVars, last, race, monitor, peer>>

\* index.ts 1036-1108; part_006 440-512: the fetch of the lines around the
\* cursor and the entry of the window
WinSection ==
  /\ pc = "window" /\ win.phase = "section"
  /\ \E f \in FetchChoices :
       LET r == FetchResult(f, "Timeout getting buffer lines section")
           startLine == startLineOf(win.cursor)
           endLine == endLineOf(win.cursor, win.lineCount)
           contentSection == IF r.ok THEN GetLines(win.ed.lines, startLine, endLine)
                             ELSE <<ErrorLine>>
       IN
         /\ r.settled
         /\ win' = [win EXCEPT
                      !.phase = "done",
                      !.pushed = @ + 1,
                      !.issued = @ \o FetchCalls(f, "section", startLine, endLine, endLine),
                      !.atFetch = win.ed.lines,
                      !.fetched = r.ok,
                      !.entry = WindowSnapshot(win.number, win.isCurrentWindow, 1, "a.txt",
                                  win.cursor, win.lineCount,
                                  formattedContent(
                                    contentWithCursor(contentSection, startLine,
                                                      win.isCurrentWindow, win.cursor),
                                    startLine),
                                  r.diag)]
  /\ UNCHANGED <<envVars, progVars, reqVars, readVars, last, race, monitor, peer>>

\* index.ts 942, 1110-1118; part_006 373, 514-530: whatever was pushed for a
\* window, an entry, an entry with the diagnostic line or the placeholder of
\* the catch, the loop goes on to the next window of the list. What is kept
\* of the window left behind is the kind of its entry and its number; the
\* changes of the editor are counted anew for each window.
WinNext ==
  /\ pc = "window" /\ win.phase = "done"
  /\ win.index < NumWindows
  /\ \E w \in WinInputs :
       /\ w.focused => w.number = EdWinNumber(Arranged(EdCurrentWindow, exchanged))
       /\ (build = "index" /\ w.number = EdWinNumber(Arranged(EdCurrentWindow, exchanged)))
            => w.focused
       \* index.ts walks the handles of the windows of one tab, read before
       \* the loop (755-760), and asks each for its number when its turn
       \* comes (944-948): two windows answer different numbers in one
       \* arrangement, and a window answers the number the other one had when
       \* the two were exchanged in between
       /\ build = "index" => ((w.number # win.number) <=> (exchanged = win.arranged))
       /\ win' = [NoWin EXCEPT !.phase = "head",
                               !.ed = [lines |-> w.lines, cursor |-> <<w.line, w.col>>],
                               !.number = w.number,
                               !.arranged = exchanged,
                               !.currentNumber = win.currentNumber,
                               !.focused = w.focused,
                               !.edits = win.edits,
                               !.index = win.index + 1,
                               !.pushed = win.pushed,
                               !.before = [kind |-> IF win.entry.placeholder THEN "placeholder"
                                                    ELSE IF win.entry.diag # "" THEN "diag"
                                                    ELSE "entry",
                                           number |-> win.number]]
  /\ faults' = 0
  /\ UNCHANGED <<envVars, progVars, pc, req, served, log, calls, waited, resp, readVars,
                 last, race, monitor, peer>>

NextWin ==
  \/ WinHead
  \/ WinEdit
  \/ WinLength
  \/ WinFull
  \/ WinSection
  \/ WinNext
  \/ RemoteChange

SpecWin == InitWin /\ [][NextWin]_vars

(* ------------------- two requests handled concurrently ---------------- *)
\* The handlers are async functions over one module-level handle and nothing
\* serialises them. The handler of one request (the peer) has passed its
\* connection check and is suspended at an await inside read_state, between
\* two calls of the buffer loop; the requests that arrive meanwhile are
\* handled step by step as in Spec.
InitIL ==
  /\ sockExists = TRUE
  /\ remote = "up"
  /\ sessionOk = TRUE
  /\ sent = <<>>
  /\ exchanged = FALSE
  /\ build \in {"index", "mcp"}
  /\ nvim = Handle
  /\ notifications = 0
  /\ pc = "idle"
  /\ req = NoReq
  /\ served = 0
  /\ log = <<>>
  /\ calls = 0
  /\ waited = 0
  /\ faults = 0
  /\ resp = NoResp
  /\ idx = NoIdx
  /\ allBuffersInfo = <<>>
  /\ tabsInfo = <<>>
  /\ windowsInfo = <<>>
  /\ result = <<>>
  /\ cur = NoCur
  /\ seen = NoSeen
  /\ last = NoLast
  /\ race = NoRace
  /\ monitor = NoMonitor
  /\ win = NoWin
  /\ peer = "suspended"

\* index.ts 792-796, part_006 228-232: the peer resumes and evaluates its
\* next call, nvim.request('nvim_buf_is_loaded', ...) or nvim.window, on the
\* handle stored at that moment; with no handle stored the expression throws
\* a TypeError
PeerIssues ==
  /\ peer = "suspended"
  /\ peer' = IF isNeovimConnected(nvim) THEN "issued" ELSE "no_handle"
  /\ UNCHANGED <<envVars, progVars, reqVars, readVars, last, race, monitor, win>>

SpecIL == InitIL /\ [][Receive \/ Handler \/ RemoteChange \/ SocketChange \/ PeerIssues]_vars

(* ------------------------------ properties ---------------------------- *)
Answered == pc = "idle" /\ served > 0 /\ resp.kind # "none"

\* the events of one connect: the socket file is missing, attach failed,
\* attach succeeded, or attach has not settled
ConnectLogs == {<<"connect", "connect:false">>, <<"connect", "attach", "connect:false">>,
                <<"connect", "attach", "connect:true">>, <<"connect", "attach">>}

ProbeFailed == <<"probe", "probe:false", "reset">>

RecoveryLogs ==
  {<<>>, <<"probe", "probe:true">>, ProbeFailed}
  \cup ConnectLogs \cup {ProbeFailed \o c : c \in ConnectLogs}

LastOf(s) == s[Len(s)]

\* C1: within one request the dispatcher makes at most one recovery: one
\* connect when no handle exists, or one probe, one reset and one connect
\* when the probe of the existing handle fails; when that connect fails the
\* request has ended with an error and nothing more is attempted.
C1_AtMostOneRecovery ==
  /\ log \in RecoveryLogs
  /\ pc = "reconnect" => log = ProbeFailed /\ nvim = Absent
  /\ (log # <<>> /\ LastOf(log) = "connect:false") =>
       Answered /\ (resp.isError \/ resp.kind = "exception")

C1_Witness ==
  /\ Answered
  /\ log = ProbeFailed \o <<"connect", "attach", "connect:false">>
  /\ resp.isError

\* C2: no remote call of an action is issued in a request unless connect
\* returned true or the probe of the existing handle succeeded earlier in
\* that request.
C2_LiveBeforeAction ==
  calls > 0 => \E i \in DOMAIN log : log[i] \in {"connect:true", "probe:true"}

\* C3 as written: in a request that starts with no handle and whose connect
\* succeeds, the probe is made after connect and before the action.
C3_ProbeAfterConnect ==
  (pc \in ActionPcs /\ log # <<>> /\ log[1] = "connect") =>
    \E i \in DOMAIN log : i > 1 /\ log[i] = "probe"

\* C3 amended: a request that starts with no handle makes no probe; the
\* action follows the successful connect directly, and a probe is made only
\* by a request that starts with a handle.
C3_NoProbeAfterFreshConnect ==
  /\ (log # <<>> /\ log[1] = "connect") => log \in ConnectLogs
  /\ (pc \in ActionPcs /\ log # <<>> /\ log[1] = "connect") =>
       log = <<"connect", "attach", "connect:true">>
  /\ (\E i \in DOMAIN log : log[i] = "probe") => log[1] = "probe"

C3_Witness ==
  /\ pc \in ActionPcs
  /\ calls > 0
  /\ log = <<"connect", "attach", "connect:true">>

\* C4: no failure leaves the handler as an exception: every request is
\* answered by one response, and the response of a request that failed to
\* connect, named an unknown action or carried invalid arguments is marked
\* as an error.
C4_NoFailureEscapes ==
  (pc = "idle" /\ served > 0) =>
    /\ resp.kind = "result"
    /\ ((log # <<>> /\ LastOf(log) = "connect:false")
        \/ req.name = "bogus_tool" \/ ~req.argsOk) => resp.isError

\* C5: with the socket file missing, a read_state request returns an error
\* payload naming the socket path and the remote-listen invocation; nothing
\* is thrown, attach is not attempted and the handle is still absent.
C5_ReadWithoutSocket ==
  (pc = "idle" /\ served > 0 /\ IsRead(req) /\ log = <<"connect", "connect:false">>) =>
    /\ resp.kind = "result"
    /\ resp.isError
    /\ Contains(resp.text, SocketPath)
    /\ HasListenInvocation(resp.text, SocketPath)
    /\ ~isNeovimConnected(nvim)

\* C6: every request that has been received is eventually answered,
\* whatever the editor does or fails to do, provided the handler's timers
\* fire.
C6_EveryRequestAnswered == (served > 0 /\ pc # "idle") ~> Answered

\* C7: a read_state request in which a remote call never resolves returns
\* after the expiry of at most one per-call timer in total.
C7_OneTimerInTotal ==
  (pc = "idle" /\ served > 0 /\ IsRead(req)) => waited <= NVIM_RPC_TIMEOUT_MS

ReadDone == Answered /\ IsRead(req) /\ resp.kind = "result" /\ ~resp.isError

\* the entry of window w is its entry of a fault-free read (its buffer,
\* cursor and length, with a number the editor gives it in one of its
\* arrangements), a placeholder, or that entry with a diagnostic in place of
\* its lines
IsEntryOfWindow(e, w) ==
  \/ e.placeholder
  \/ \E y \in BOOLEAN, c \in BOOLEAN :
       [e EXCEPT !.content = "lines", !.diag = ""]
         = WindowEntry(w, EdWinNumber(Arranged(w, y)), c, "lines", "")

\* the entries follow the window list as the editor gave it to the read
WindowsInOrder(b, windows) ==
  /\ Len(windows) = Len(WindowsShown(b))
  /\ \E x \in BOOLEAN :
       \A i \in DOMAIN windows :
         IsEntryOfWindow(windows[i], Arranged(WindowsShown(b)[i], x))

\* C8 as written: the report holds one entry per enumerated window and per
\* enumerated buffer, in enumeration order, each the entity's own entry or
\* its placeholder.
C8_EntriesInEnumerationOrder ==
  ReadDone =>
    /\ WindowsInOrder(build, resp.report.windows)
    /\ Len(resp.report.buffers) = NumBuffers
    /\ \A i \in DOMAIN resp.report.buffers :
         \/ ~resp.report.buffers[i].number.isNum
         \/ resp.report.buffers[i] = BufferEntry(build, EdBuffers[i])

\* the fault budget of the request is used up and the editor answers: no
\* call of the step fails
NoFailureNow == faults >= MaxFaults /\ sessionOk /\ remote = "up"

\* the window entries pushed once the step is taken: the list of the loop,
\* or the list of the report when the step pushed the last entry
WindowsAfterStep == IF pc' = "idle" THEN resp'.report.windows ELSE result'

\* a step of the buffer loop pushes one entry, at the place of its buffer in
\* the enumeration: the buffer's own entry, which it is whenever none of
\* its own calls failed, or a placeholder
BufferLoopStep ==
  (pc = "vb_buf" /\ allBuffersInfo' # allBuffersInfo) =>
    LET e == LastOf(allBuffersInfo') IN
      /\ allBuffersInfo' = Append(allBuffersInfo, e)
      /\ Len(allBuffersInfo') = idx.i
      /\ e = BufferEntry(build, EdBuffers[idx.i]) \/ ~e.number.isNum
      /\ NoFailureNow => e = BufferEntry(build, EdBuffers[idx.i])
      /\ pc' = "vb_buf" => idx'.i = idx.i + 1
      /\ pc' # "vb_buf" => idx.i = NumBuffers

\* a step of the window loop: the head calls of window idx.i of the list
\* either push a placeholder at its place or go on to the line fetches of
\* that very window, which they do whenever none of them failed; the line
\* fetches push the window's own entry, with its lines whenever no fetch
\* failed and with a diagnostic otherwise; the loop then takes the next
\* window of the list
WindowLoopStep ==
  /\ (pc = "vb_win" /\ (pc' # pc \/ result' # result)) =>
       LET w == Arranged(WindowsShown(build)[idx.i], seen.shown)
           goesOn == /\ pc' \in {"vb_full", "vb_section"}
                     /\ result' = result /\ idx' = idx
                     /\ cur'.w = w
                     /\ cur'.number \in {EdWinNumber(Arranged(w, y)) : y \in BOOLEAN}
           pushes == /\ pc' \in {"vb_win", "idle"}
                     /\ WindowsAfterStep # <<>>
                     /\ WindowsAfterStep = Append(result, LastOf(WindowsAfterStep))
                     /\ Len(WindowsAfterStep) = idx.i
                     /\ LastOf(WindowsAfterStep).placeholder
       IN /\ goesOn \/ pushes
          /\ NoFailureNow => goesOn
  /\ (pc = "vb_full" /\ pc' # pc) =>
       /\ pc' = "vb_section" /\ result' = result /\ idx' = idx
       /\ cur'.w = cur.w /\ cur'.number = cur.number
       /\ cur'.isCurrentWindow = cur.isCurrentWindow
  /\ (pc = "vb_section" /\ pc' # pc) =>
       LET own == WindowEntry(cur.w, cur.number, cur.isCurrentWindow, "lines", "")
           e == LastOf(WindowsAfterStep)
       IN /\ pc' \in {"vb_win", "idle"}
          /\ WindowsAfterStep # <<>>
          /\ WindowsAfterStep = Append(result, e)
          /\ Len(WindowsAfterStep) = idx.i
          /\ e = own \/ (e.diag # "" /\ e = [own EXCEPT !.content = "diag", !.diag = e.diag])
          /\ NoFailureNow => e = own
  /\ (pc \in {"vb_win", "vb_section"} /\ pc' = "vb_win" /\ result' # result) =>
       idx'.i = idx.i + 1
  /\ (pc \in {"vb_win", "vb_section"} /\ pc' = "idle") =>
       /\ idx.i = Len(WindowsShown(build))
       /\ Len(allBuffersInfo) = NumBuffers
       /\ build = "mcp" => resp'.json.buffers = allBuffersInfo
       /\ \A n \in 1..NumBuffers :
            Cardinality({i \in DOMAIN allBuffersInfo : allBuffersInfo[i].number = Num(n)})
              = Cardinality({i \in DOMAIN resp'.report.buffers :
                               resp'.report.buffers[i].number = Num(n)})

\* the report of a read that ran to its end
ReportHoldsEveryEntity ==
  ReadDone =>
    LET bs == resp.report.buffers IN
    /\ WindowsInOrder(build, resp.report.windows)
    /\ Len(bs) = NumBuffers
    /\ \A i \in DOMAIN bs :
         bs[i].number.isNum =>
           /\ bs[i].number.n \in Range(EdBuffers)
           /\ bs[i] = BufferEntry(build, bs[i].number.n)
    /\ \A i, j \in DOMAIN bs :
         (i < j /\ bs[i].number.isNum /\ bs[j].number.isNum) =>
           bs[i].number.n < bs[j].number.n
    /\ build = "mcp" =>
         /\ Len(resp.json.buffers) = NumBuffers
         /\ \A i \in DOMAIN resp.json.buffers :
              \/ ~resp.json.buffers[i].number.isNum
              \/ resp.json.buffers[i] = BufferEntry(build, EdBuffers[i])
         /\ resp.json.windows = resp.report.windows

\* C8 amended: every step of the buffer loop and of the window loop pushes
\* one entry for its own entity, at the entity's place in the enumeration:
\* a placeholder when a call of that entity failed, and the entry of a
\* fault-free read whenever none of its calls failed, whatever happened to
\* the entities before it. The report holds one entry per enumerated window,
\* in enumeration order, and one entry per enumerated buffer; the buffer
\* list of the text form is sorted, so a placeholder does not keep its
\* buffer's place while the entries of the other buffers keep their relative
\* order; the structured form of part_006 keeps the enumeration order.
C8_OneEntryPerEntity ==
  []ReportHoldsEveryEntity /\ [][BufferLoopStep /\ WindowLoopStep]_vars

\* a read ran to its end in which the calls of the first window failed: its
\* entry is a placeholder, the entry of the second window and the entries of
\* the buffers are those of a fault-free read
C8_Witness ==
  /\ ReadDone
  /\ ~exchanged
  /\ Len(resp.report.windows) >= 2
  /\ resp.report.windows[1].placeholder
  /\ LET w == WindowsShown(build)[2] IN
       resp.report.windows[2]
         = WindowEntry(w, EdWinNumber(w), EdWinNumber(w) = EdWinNumber(EdCurrentWindow),
                       "lines", "")
  /\ \A i \in DOMAIN resp.report.buffers :
       resp.report.buffers[i] = BufferEntry(build, EdBuffers[i])

\* C9: connect called while the socket file is missing returns false, does
\* not attempt attach and leaves the stored handle as it was.
C9_NoSocketNoEffect ==
  (last.op = "connect" /\ ~last.sock) =>
    /\ ~last.ret
    /\ ~last.attached
    /\ nvim = last.before

C9_Witness ==
  /\ last.op = "connect"
  /\ ~last.sock
  /\ last.before = Handle
  /\ nvim = Handle

\* C10: after connect has attempted attach, isConnected() equals the value
\* connect returned: a failed attach leaves no handle stored, whatever the
\* handle was before the call.
C10_ConnectedIffReturnedTrue ==
  (last.op = "connect" /\ last.attached) => (isNeovimConnected(nvim) <=> last.ret)

\* C11: connect never raises: a missing socket file and a failed attach both
\* end in the return value false.
C11_ConnectNeverRaises ==
  last.op = "connect" =>
    /\ ~last.threw
    /\ (~last.sock \/ last.outcome # "ok") => ~last.ret

C11_Witness ==
  /\ last.op = "connect"
  /\ last.sock
  /\ last.outcome = "refused"
  /\ ~last.ret

\* C12: isAlive leaves the stored handle as it was, whatever the probe did;
\* two isAlive calls in succession, the editor being as the first call left
\* it, return the same boolean.
C12_IsAliveKeepsHandle ==
  last.op = "isAlive" =>
    /\ nvim = last.before
    /\ (last.prev = "isAlive" /\ last.quiet) => last.ret = last.prevRet

C12_Witness ==
  /\ last.op = "isAlive"
  /\ last.prev = "isAlive"
  /\ last.quiet
  /\ last.before = Handle
  /\ last.outcome = "never"
  /\ nvim = Handle

\* C13: isAlive returns true only when a handle exists and the probe answered
\* before its timer; a failed or timed-out probe gives false without raising,
\* and with no handle it gives false without issuing the probe.
C13_IsAliveIffProbeAnswered ==
  last.op = "isAlive" =>
    /\ ~last.threw
    /\ last.ret <=> (last.before = Handle /\ last.outcome = "ok")
    /\ last.attached <=> last.before = Handle
    /\ last.waited = (IF last.before = Handle /\ last.outcome = "never"
                        THEN NVIM_API_TIMEOUT_MS ELSE 0)

C13_Witness ==
  /\ last.op = "isAlive"
  /\ last.before = Handle
  /\ last.outcome = "never"
  /\ ~last.ret
  /\ last.waited = NVIM_API_TIMEOUT_MS

\* C14: after reset no handle is stored, whatever was stored before, and a
\* second reset changes nothing.
C14_ResetIdempotent ==
  last.op = "reset" =>
    /\ ~isNeovimConnected(nvim)
    /\ last.prev = "reset" => nvim = last.before

C14_Witness ==
  /\ last.op = "reset"
  /\ last.prev = "reset"
  /\ nvim = Absent

\* what the caller of withTimeout sees once the raced promise has settled
RaceOutcome ==
  [ok |-> race.promise.state = "fulfilled",
   error |-> IF race.promise.state = "rejected" THEN race.promise.value ELSE ""]

\* how the operation stands when the timer fires
RaceOperationInTime == IF race.first = "op" THEN race.op ELSE "never"

\* C15: withTimeout settles exactly once: with the operation's result or the
\* operation's own failure when the operation settles before the timer, with a
\* failure carrying the given message when the timer fires first; nothing that
\* settles later changes the outcome delivered.
C15_SettlesOnceFirstWins ==
  race.phase = "racing" =>
    LET w == withTimeout(RaceOperationInTime, race.timeoutMs, race.errorMessage) IN
      /\ race.settlements = (IF race.opDone \/ race.timerDone THEN 1 ELSE 0)
      /\ (race.opDone \/ race.timerDone) =>
           /\ race.promise.state # "pending"
           /\ RaceOutcome.ok = w.ok
           /\ RaceOutcome.error = w.error
           /\ race.first = "timer" => RaceOutcome.error = race.errorMessage
           /\ (race.first = "op" /\ race.op = "ok") => race.promise.value = "result"
           /\ (race.first = "op" /\ race.op = "err") => RaceOutcome.error = RemoteError

\* the operation succeeded first, the timer fired afterwards, the result stands
C15_Witness ==
  /\ race.phase = "racing"
  /\ race.first = "op" /\ race.op = "ok"
  /\ race.opDone /\ race.timerDone
  /\ race.promise.state = "fulfilled"
  /\ race.settlements = 1

\* C16: every remote call the system makes is raced against a timer by the
\* Timeout Guard, the editor commands issued at startup to subscribe to change
\* notifications included: no command is ever awaited with no timer.
C16_EveryCallTimed == monitor.raw = 0

\* C17: a request naming an action the dispatcher does not recognise ends in an
\* error response in every connection state (no handle, live handle, dead
\* handle), and no keystroke, command or state-read call is sent to the editor
\* for it.
C17_UnknownActionRejected ==
  /\ [](req.name = "bogus_tool" =>
          /\ pc \notin ActionPcs
          /\ calls = 0
          /\ Answered => (resp.kind = "result" /\ resp.isError))
  /\ [][req'.name = "bogus_tool" => sent' = sent]_vars

\* the handle was live, the dispatcher was reached and answered with an error
C17_Witness ==
  /\ Answered
  /\ req.name = "bogus_tool"
  /\ log = <<"probe", "probe:true">>
  /\ resp.kind = "result" /\ resp.isError
  /\ resp.text = <<"Error: ", "Unknown tool: ", "bogus_tool">>

\* the step in which the send_keys handler issues its call
KeysCallStep == pc = "keys" /\ pc' # "keys"

\* the call reached the editor as command("normal! " + keys) and has settled
KeysCallSent(ok) ==
  sent' = Append(sent, [method |-> "command", prefix |-> "normal! ",
                        arg |-> req.arg, ok |-> ok])

\* what holds while the send_keys handler runs
SendKeysState ==
  /\ pc = "keys" => calls = 0
  /\ pc = "notify" =>
       /\ calls = 1 /\ resp = NoResp /\ build = "mcp"
       /\ sent # <<>> /\ LastOf(sent).ok /\ LastOf(sent).arg = req.arg

\* what every step of send_keys does, B being the builds that own a
\* change-notification channel
SendKeysStep(B) ==
     \* exactly one call, carrying the keys as given
  /\ KeysCallStep =>
       /\ calls' = 1
       /\ waited' \in {0, NVIM_RPC_TIMEOUT_MS}
       /\ sent' = sent \/ KeysCallSent(TRUE) \/ KeysCallSent(FALSE)
     \* the call failed or timed out: error response, no notification
  /\ (KeysCallStep /\ ~KeysCallSent(TRUE)) =>
       /\ pc' = "idle" /\ resp'.kind = "result" /\ resp'.isError
       /\ notifications' = notifications
     \* the call succeeded: the notification is the next thing the handler does
  /\ (KeysCallStep /\ KeysCallSent(TRUE) /\ build \in B) =>
       /\ pc' = "notify" /\ resp' = NoResp
       /\ notifications' = notifications
     \* no channel: the success response follows the call directly
  /\ (KeysCallStep /\ KeysCallSent(TRUE) /\ build \notin B) =>
       /\ pc' = "idle" /\ resp'.kind = "result" /\ ~resp'.isError
       /\ notifications' = notifications
     \* the notification is sent once, before the success response
  /\ notifications' # notifications =>
       /\ notifications' = notifications + 1
       /\ pc = "notify" /\ resp = NoResp
       /\ pc' = "idle" /\ resp'.kind = "result" /\ ~resp'.isError

\* C18 (as stated): a send_keys request on a live connection issues exactly one
\* timed call carrying the keys unmodified; a state-changed notification is
\* sent if and only if that call succeeded before its timer, after the call
\* completes and before the success response; on timeout or remote error no
\* notification is sent and an error response is returned.
C18_NotifiedIffSucceeded ==
  []SendKeysState /\ [][SendKeysStep({"index", "mcp"})]_vars

\* C18 (amended): the same, the notification being sent only by the build that
\* has a change-notification channel (part_006); index.ts answers a successful
\* call with the success response and sends no notification.
C18_NotifiedIffSucceededWithChannel ==
  []SendKeysState /\ [][SendKeysStep({"mcp"})]_vars

\* the keys were sent once, the notification went out, the success was returned
C18_Witness ==
  /\ Answered
  /\ build = "mcp"
  /\ req.name = "send_normal_mode"
  /\ ~resp.isError
  /\ calls = 1
  /\ notifications = 1
  /\ sent = <<[method |-> "command", prefix |-> "normal! ", arg |-> req.arg, ok |-> TRUE]>>

KeysEntry(k) == [method |-> "command", prefix |-> "normal! ", arg |-> k, ok |-> TRUE]
CommandEntry(c) == [method |-> "commandOutput", prefix |-> "", arg |-> c, ok |-> TRUE]

\* C19: a send_keys request answered with success followed by a send_command
\* request answered with success reaches the editor as the keystroke call
\* first and the command call second, each exactly once.
C19_KeysThenCommandInOrder ==
     \* the first request: success is answered exactly when its one call succeeded
  /\ (served = 1 /\ Answered /\ req.name = "send_normal_mode") =>
       /\ Len(sent) <= 1
       /\ ~resp.isError <=> sent = <<KeysEntry(req.arg)>>
     \* the second request, after a first one that succeeded
  /\ (served = 2 /\ Answered /\ req.name = "send_command_mode" /\ ~resp.isError
        /\ sent # <<>> /\ sent[1] \in {KeysEntry(k) : k \in Keys}) =>
       \E k \in Keys : sent = <<KeysEntry(k), CommandEntry(req.arg)>>

C19_Witness ==
  /\ served = 2 /\ Answered
  /\ req.name = "send_command_mode" /\ ~resp.isError
  /\ sent = <<KeysEntry("iHello<Esc>"), CommandEntry("w /tmp/out.txt")>>

C21_ChangesForwarded ==
  [][(/\ monitor.report = "none" /\ monitor'.report # "none"
      /\ isNeovimConnected(nvim) /\ sessionOk)
       => monitor'.report = "forwarded"]_vars

\* C22: for a buffer reported with zero lines, every line-range call issued
\* for it (the structured call and the raw request alike) has an end bound of
\* at least 1, and no line-range call is ever issued with end = -1.
C22_EndClampedToOne ==
  \A i \in DOMAIN win.issued :
    /\ win.lineCount = 0 => win.issued[i].end >= 1
    /\ win.issued[i].end # 0 - 1

\* C23: every line-range call issued for a window asks for the neighbourhood
\* of the cursor only: start = max(0, cursorLine - radius) and end =
\* min(totalLines, cursorLine + radius + 1), cursorLine counted from 0; no
\* call asks for the whole buffer.
C23_OnlyCursorNeighbourhood ==
  \A i \in DOMAIN win.issued :
    /\ win.issued[i].start = Max(0, (win.cursor[1] - 1) - contextLines)
    /\ win.issued[i].end = Min(win.lineCount, (win.cursor[1] - 1) + contextLines + 1)

\* C24: every window snapshot, a placeholder included, has a cursor line
\* within [1, totalLines], also when the buffer changes between the read of
\* the cursor and the read of the line count.
C24_CursorLineWithinBuffer ==
  win.phase = "done" =>
    /\ 1 <= win.entry.cursor[1]
    /\ win.entry.hasTotalLines => win.entry.cursor[1] <= win.entry.totalLines

\* C25: every window snapshot that carries a visibleRange has
\* visibleRange.startLine >= 1 and visibleRange.endLine <= totalLines + 1.
C25_VisibleRangeWithinBuffer ==
  (win.phase = "done" /\ win.entry.hasRange) =>
    /\ win.entry.visibleRange.startLine >= 1
    /\ win.entry.visibleRange.endLine <= win.entry.totalLines + 1

\* the positions of the report's window list that hold the windows of the
\* active tab
ActiveTabPositions ==
  {i \in DOMAIN resp.report.windows :
     i <= Len(WindowsShown(build))
     /\ WindowsShown(build)[i] \in Range(EdTabWindows(EdCurrentTab))}

\* C26: in every report exactly one window snapshot among the windows of the
\* active tab has isCurrentWindow = true, also when a sub-call for some
\* window fails.
C26_ExactlyOneCurrentWindow ==
  ReadDone =>
    Cardinality({i \in ActiveTabPositions : resp.report.windows[i].isCurrentWindow}) = 1

\* C27: the buffer list of a report is in ascending order of buffer number,
\* and every entry whose number could not be resolved comes after all the
\* entries with a resolved number.
C27_UnresolvedSortLast ==
  ReadDone =>
    LET bs == resp.report.buffers IN
    \A i, j \in DOMAIN bs :
      i < j =>
        /\ (bs[i].number.isNum /\ bs[j].number.isNum) => bs[i].number.n <= bs[j].number.n
        /\ bs[j].number.isNum => bs[i].number.isNum

LayoutTypes == {"single", "horizontal", "vertical", "mixed", "complex", "empty", "unknown"}

\* the layout types the classification allows for a list of tab windows
LayoutTypesFor(windows) ==
  LET rows == {windows[i].position.row : i \in {k \in DOMAIN windows : windows[k].hasPosition}}
      cols == {windows[i].position.col : i \in {k \in DOMAIN windows : windows[k].hasPosition}}
  IN  IF Len(windows) = 0 THEN {"empty"}
      ELSE IF Len(windows) = 1 THEN {"single"}
      ELSE IF Cardinality(rows) = 1 /\ Cardinality(cols) > 1 THEN {"horizontal"}
      ELSE IF Cardinality(rows) > 1 /\ Cardinality(cols) = 1 THEN {"vertical"}
      ELSE IF Cardinality(rows) > 1 /\ Cardinality(cols) > 1 THEN {"mixed"}
      ELSE {"complex", "unknown"}

\* C28: the layout of a tab is classified from the top-left coordinates of
\* its windows alone: no window gives empty, one window gives single, and for
\* two or more windows one row and several columns give horizontal, several
\* rows and one column give vertical, several of both give mixed, and every
\* remaining case gives complex or unknown; the classification always
\* results in one of these types.
C28_LayoutFromCoordinates ==
  (ReadDone /\ build = "index") =>
    \A i \in DOMAIN resp.report.tabs :
      LET t == resp.report.tabs[i] IN
        /\ t.error # "Error retrieving tab info: TypeError: Cannot read properties of undefined (reading 'row')"
        /\ t.error = "" =>
             /\ t.layout.type \in LayoutTypes
             /\ t.layout.type \in LayoutTypesFor(t.windows)

\* the rendered line t is the buffer line with the marker put in front of
\* its character number column (counted from 0)
MarkedAt(t, line, column) ==
  /\ Len(t) = Len(line) + 1
  /\ column <= Len(line)
  /\ \A k \in 1..Len(t) :
       t[k] = (IF k <= column THEN line[k] ELSE IF k = column + 1 THEN Marker ELSE line[k - 1])

\* C29: the cursor marker is inserted only in the snapshot of the focused
\* window, only in the content line whose buffer line is the cursor line, and
\* at the cursor column: the marked line is the first column characters of
\* the buffer line, the marker, then the rest. No line of another window and
\* no other line of the focused window holds a marker.
C29_MarkerOnlyAtCursor ==
  (win.phase = "done" /\ ~win.entry.placeholder) =>
    \A i \in DOMAIN win.entry.content :
      LET l == win.entry.content[i] IN
        Marker \in Range(l.text) =>
          /\ win.focused
          /\ win.fetched
          /\ l.lineNumber = win.cursor[1]
          /\ MarkedAt(l.text, EdLineText(l.lineNumber), win.cursor[2])

\* a rendered line without the cursor marker
Unmarked(t) == SelectSeq(t, LAMBDA c : c # Marker)

\* the content of the snapshot is the lines start .. end - 1 of the buffer,
\* labelled from start + 1
ContentIsRange(start, end) ==
  LET content == win.entry.content IN
    /\ Len(content) = end - start
    /\ \A i \in 0..(Len(content) - 1) :
         /\ content[i + 1].lineNumber = start + i + 1
         /\ Unmarked(content[i + 1].text) = EdLineText(start + i + 1)

\* the window's line fetch succeeded with bounds 0 <= start < end <=
\* totalLines, totalLines being the line count of the snapshot
FetchedWithinSnapshot ==
  /\ win.phase = "done" /\ win.fetched
  /\ 0 <= startLineOf(win.cursor)
  /\ startLineOf(win.cursor) < endLineOf(win.cursor, win.lineCount)
  /\ endLineOf(win.cursor, win.lineCount) <= win.entry.totalLines

\* C30 as written: for a window whose line fetch succeeded with bounds
\* 0 <= start < end <= totalLines, the snapshot content has end - start
\* lines, and its i-th line (counted from 0) is buffer line start + i,
\* labelled with the 1-based number start + i + 1.
C30_ContentIsTheRange ==
  FetchedWithinSnapshot =>
    ContentIsRange(startLineOf(win.cursor), endLineOf(win.cursor, win.lineCount))

\* C30 amended: the same, for a fetch whose bounds lie within the buffer as
\* it is when the fetch is served: 0 <= start < end <= the number of lines
\* the buffer then has, which is the snapshot's totalLines unless the buffer
\* was cut after its length was read.
C30_ContentIsTheServedRange ==
  (FetchedWithinSnapshot /\ endLineOf(win.cursor, win.lineCount) <= win.atFetch) =>
    ContentIsRange(startLineOf(win.cursor), endLineOf(win.cursor, win.lineCount))

C30_Witness ==
  /\ FetchedWithinSnapshot
  /\ endLineOf(win.cursor, win.lineCount) <= win.atFetch
  /\ startLineOf(win.cursor) = 49
  /\ Len(win.entry.content) = 201
  /\ win.entry.content[1].lineNumber = 50
  /\ win.edits > 0

\* C31: the structured form of a report holds the windows of the state it
\* was assembled from, in the same number and order and with the same
\* cursor, buffer name and buffer number, and the text form made from the
\* same state lists the same windows and the same buffers in the same order
\* as the structured form.
C31_TextAndStructuredAgree ==
  (ReadDone /\ build = "mcp") =>
    /\ Len(resp.json.windows) = Len(resp.report.windows)
    /\ \A i \in DOMAIN resp.json.windows :
         /\ resp.json.windows[i].cursor = resp.report.windows[i].cursor
         /\ resp.json.windows[i].bufferName = resp.report.windows[i].bufferName
         /\ resp.json.windows[i].bufferNumber = resp.report.windows[i].bufferNumber
    /\ Len(resp.json.buffers) = Len(resp.report.buffers)
    /\ \A i \in DOMAIN resp.json.buffers :
         resp.json.buffers[i].number = resp.report.buffers[i].number

\* the tab entry stands for a tab whose own calls (number, windows) failed
IsFailedTab(t) ==
  t.error \in {ErrorTab(build, ErrorString(m)).error :
                 m \in Range(TabHeadCalls(build)) \cup {RemoteError, RemoteTimeoutError}}

\* C32: when the details of one window of a tab with two or more windows
\* cannot be fetched, the tab's entry still lists every window of the tab,
\* the failed one as a placeholder and the others with their number and
\* buffer, and still carries a layout: the tab is not replaced by an error
\* entry.
C32_TabSurvivesWindowFailure ==
  ReadDone =>
    \A i \in DOMAIN resp.report.tabs :
      LET t == resp.report.tabs[i]
          ws == EdTabWindows(EdTabs[i])
      IN  ~IsFailedTab(t) =>
            /\ t.error = ""
            /\ Len(t.windows) = Len(ws)
            /\ \A j \in DOMAIN t.windows :
                 \/ ~t.windows[j].number.isNum
                 \/ \E x, xn, xp \in BOOLEAN :
                      t.windows[j] = TabWindowEntry(build, Arranged(ws[j], x), xn, xp)
            /\ build = "index" => t.layout.type \in LayoutTypes

\* the line-range calls of the fetch around the cursor
SectionCalls == SelectSeq(win.issued, LAMBDA c : c.fetch = "section")

\* both the structured call and the raw request of the section fetch failed
SectionFailedTwice ==
  /\ win.phase = "done"
  /\ Len(SectionCalls) = 2
  /\ ~SectionCalls[1].ok /\ ~SectionCalls[2].ok

\* C33: for a window, the raw request for the line range is issued only
\* after the structured call failed or timed out, at most once and with the
\* same start and end; when both fail the window's entry keeps its window
\* number, buffer number, buffer name and cursor and holds one diagnostic
\* line, and the read of the window ends with that entry pushed: the loop
\* takes the window after it, which is read from its first call like any
\* other and whose entry is its own.
C33_FallbackOnceSameBounds ==
  /\ Len(SectionCalls) <= 2
  /\ Len(SectionCalls) >= 1 => SectionCalls[1].api = "getLines"
  /\ Len(SectionCalls) = 2 =>
       /\ ~SectionCalls[1].ok
       /\ SectionCalls[2].api = "nvim_buf_get_lines"
       /\ SectionCalls[2].start = SectionCalls[1].start
       /\ SectionCalls[2].end = SectionCalls[1].end
  /\ SectionFailedTwice =>
       /\ ~win.entry.placeholder
       /\ win.entry.windowNumber = Num(win.number)
       /\ win.entry.bufferNumber = Num(1)
       /\ win.entry.bufferName = "a.txt"
       /\ win.entry.cursor = win.cursor
       /\ Len(win.entry.content) = 1
       /\ Unmarked(win.entry.content[1].text) = ErrorLine
       /\ win.entry.diag # ""
     \* one entry is pushed for every window read, and the loop goes on
     \* whatever was pushed
  /\ win.phase = "done" => win.pushed = win.index
  /\ win.phase # "done" => win.pushed = win.index - 1
  /\ (win.phase = "done" /\ win.index < NumWindows) => ENABLED WinNext
     \* the window after one whose fetches both failed
  /\ win.before.kind = "diag" =>
       /\ win.index >= 2
       /\ win.phase = "head" => win.issued = <<>> /\ win.entry = NoEntry
       /\ (win.phase = "done" /\ ~win.entry.placeholder) =>
            /\ win.entry.windowNumber = Num(win.number)
            /\ win.entry.cursor = win.cursor
            /\ win.entry.totalLines = win.lineCount
            /\ win.fetched <=> win.entry.diag = ""

\* the fetches of the first window both failed, the editor having stopped
\* answering; it answers again and the second window has been read: its
\* entry holds its lines
C33_Witness ==
  /\ win.index = 2
  /\ win.before.kind = "diag"
  /\ win.phase = "done"
  /\ win.pushed = 2
  /\ Len(SectionCalls) = 1
  /\ SectionCalls[1].ok
  /\ SectionCalls[1].start = 49
  /\ SectionCalls[1].end = 250
  /\ win.entry.cursor = <<150, 0>>
  /\ win.fetched /\ win.entry.diag = ""
  /\ Len(win.entry.content) > 1

\* a step that changes the stored handle is a successful connect or the
\* reset that follows a failed liveness probe, and no step of an action
\* changes it
HandleStep ==
  /\ nvim' # nvim =>
       \/ /\ pc \in {"startup", "check", "reconnect"}
          /\ ~isNeovimConnected(nvim) /\ isNeovimConnected(nvim')
          /\ sockExists /\ sessionOk'
          /\ pc # "startup" => LastOf(log') = "connect:true"
       \/ /\ pc = "check"
          /\ nvim' = Absent
          /\ log' = ProbeFailed
  /\ pc \in ActionPcs \cup {"dispatch", "notify"} => nvim' = nvim

\* C34: the connection handle changes only through a successful connect and
\* through reset: a timeout or remote error inside read_state, send_keys or
\* send_command leaves the handle as it was, and an unresponsive connection
\* is dropped only by the liveness check of a later request.
C34_HandleChangesOnlyByConnectOrReset == [][HandleStep]_vars

C34_Witness ==
  /\ Answered
  /\ resp.isError
  /\ calls > 0
  /\ waited >= NVIM_RPC_TIMEOUT_MS
  /\ remote = "hung"
  /\ isNeovimConnected(nvim)
  /\ served = 1

\* while another request's handler is suspended between its connection
\* check and its next remote call, no step changes the stored handle, and
\* the handle is present when that handler issues the call
PeerStep ==
  peer = "suspended" =>
    /\ nvim' = nvim
    /\ peer' # peer => isNeovimConnected(nvim)

\* C36: for any interleaving of the handlers of two requests at their
\* suspension points, the stored handle is present whenever an action issues
\* a remote call: no request resets or replaces the handle between another
\* request's connection check and that request's action calls.
C36_HandleStableForPeer == [][PeerStep]_vars

\* the request has ended because the probe failed and the one reconnect failed
EndedLost ==
  /\ Answered
  /\ \E c \in ConnectLogs : LastOf(c) = "connect:false" /\ log = ProbeFailed \o c

\* a tool the dispatcher knows, called with valid arguments, or a read
Runnable(r) ==
  IsRead(r) \/ (r.name \in {"send_normal_mode", "send_command_mode"} /\ r.argsOk)

AfterLost ==
  /\ EndedLost => nvim' = Absent /\ (pc' # pc => pc' = "check" /\ log' = <<>>)
  /\ (pc = "check" /\ ~isNeovimConnected(nvim) /\ pc' # pc) =>
       /\ log'[1] = "connect"
       /\ "probe" \notin Range(log')
       /\ LastOf(log') = "connect:true" => pc' = "dispatch" /\ isNeovimConnected(nvim')
       /\ LastOf(log') = "connect:false" => pc' = "idle" /\ ~isNeovimConnected(nvim')
  /\ (pc = "dispatch" /\ pc' # pc /\ Runnable(req)) => pc' \in ActionPcs

\* C37: after a request ends because the reconnect following a failed
\* liveness probe failed, the handle is absent; the next request begins with
\* connect rather than with a liveness probe, and if that connect succeeds
\* the request executes its action.
C37_NextRequestStartsOver == [](EndedLost => nvim = Absent) /\ [][AfterLost]_vars

\* the second request is in its action after one successful connect and no
\* probe; runServer had stored a handle (it started the monitoring setup),
\* which only the failed probe of the first request can have dropped, and
\* the reconnect of that request failed (a successful one would have left a
\* handle to probe)
C37_Witness ==
  /\ served = 2
  /\ pc \in ActionPcs
  /\ calls > 0
  /\ log = <<"connect", "attach", "connect:true">>
  /\ monitor.state = "pending"

\* the structured form as it would be serialised after the text form was
\* rendered: formatBufferContent has sorted resource.allBuffers in place
StructuredAfterText(r) == [r.json EXCEPT !.buffers = SortBuffers(@)]

\* C38: assembling a report does not modify the state it is given, in
\* particular not the order of the buffer list, so the structured form built
\* from that state is the same whether it is built before or after the text
\* form.
C38_AssemblyLeavesStateAlone ==
  (ReadDone /\ build = "mcp") => StructuredAfterText(resp) = resp.json

\* C39: in every report, a window entry is flagged as the active buffer if
\* and only if it is flagged as the current window; this holds for normal
\* entries and for placeholder entries (undefined buffer, failed window).
C39_ActiveIffCurrent ==
  ReadDone =>
    \A i \in DOMAIN resp.report.windows :
      resp.report.windows[i].isActiveBuffer = resp.report.windows[i].isCurrentWindow

====
